---- MODULE Spec2Model ----
(***************************************************************************)
(* The 9P server runtime of plan9/server (server.go, the refcounted        *)
(* revision with xtag records): one connection, its fid table, the fid     *)
(* records with their reference counts and read/write locks, the reader    *)
(* loop of Serve and the handler goroutines it spawns, the directory reads *)
(* of readDir with their continuation state, and the return of Serve.      *)
(*                                                                         *)
(* The back-end (Fsys) is abstract: a back-end fid value has a Qid, which  *)
(* is the depth of the file in a tree whose entries at depth < FileDepth   *)
(* are directories; every directory holds the same entries; every back-end *)
(* call may fail.                                                          *)
(*                                                                         *)
(* Spec is the server with a client that uses every fid id, SpecDir the    *)
(* server with a client that keeps to one fid and varies open modes, read  *)
(* offsets and counts, FairSpec is Spec under fair scheduling, SpecWire is *)
(* Spec on a connection whose Write takes time.  Serve begins with the     *)
(* version handshake.                                                      *)
(*                                                                         *)
(* The concrete back-ends are modelled on their own: SpecNew is New and    *)
(* calcQids of staticfsys over every small tree, SpecStatic the Fid        *)
(* operations of staticfsys on the trees of its tests, SpecBuf the buffer  *)
(* file of NewBuffer, SpecClone the clonefsys wrapper nested around the    *)
(* static back-end, SpecQid the Qid of the wrapper's Fids over every Path  *)
(* of the inner back-end.                                                  *)
(***************************************************************************)
EXTENDS Integers, Sequences, FiniteSets, TLC

\* ---------------------------------------------------------------- bounds
NFids == 2        \* fid ids the client uses: 1..NFids
MaxMsgs == 3      \* T-messages read from a client that uses every fid id
MaxDirMsgs == 4   \* T-messages read from a client that keeps to fid 1
MaxNames == 2     \* names in one Twalk
FileDepth == 2    \* depth at which the abstract tree has plain files
TreeDepth == 2    \* depth of the trees handed to the static back-end
MaxSize == 3      \* the maximum size given to NewBuffer
MaxData == 2      \* bytes in one write
IntBits == 4      \* width of int and int64 in the buffer file
NSFids == 2       \* Fid values of the static back-end in use at a time
MaxAttach == 2    \* Attach calls on the static back-end
MaxDepth == 2     \* clone wrappers nested around the static back-end
NCFids == 2       \* Fid values of the clone wrapper in use at a time
PathBits == 7     \* width of Qid.Path (uint64 in the code)

\* ------------------------------------------------------------- constants
NOFID == 0        \* plan9.NOFID: "no fid"
NoRec == 0        \* a nil *fid
NoVal == 0        \* a zero back-end Fid value
ServeLoop == 0    \* the goroutine of Serve itself, among the request numbers
OREAD == 0
OWRITE == 1
ORDWR == 2
OEXEC == 3
OTRUNC == 16      \* an upper flag bit of the open mode
DefaultIounit == 8192   \* handleOpen's iounit when the back-end returns 0
DirEntryBuf == 16       \* len(f.dirEntryBuf)
QTDIR == 128            \* plan9.QTDIR, the directory bit of a Qid type
entryInfoOther == 2     \* the Content of info/other in the static test
cloneRoot == 0          \* fidType: the root of a clone wrapper
cloneDir == 1           \* fidType: a numbered directory, the inner root
cloneRest == 2          \* fidType: anything below a numbered directory
cloneMax == 3     \* clonefsys: the number of fidType values

Fids == 1..NFids
Msgs == 1..MaxDirMsgs
MaxVals == 2 * MaxDirMsgs
Vals == 1..MaxVals
Modes == {OREAD, OWRITE}
\* Open modes with the access mode in the low two bits and a flag above.
AllModes == {OREAD, OWRITE, ORDWR, OEXEC, OWRITE + OTRUNC}
\* The encoded sizes of the entries every directory of the tree holds.
DirSizes == <<2, 3>>
\* Tread counts: too small for an entry, one entry exactly, between one and
\* two entries, both entries exactly, more than the directory.
Counts == {1, 2, 3, 5, 6}
\* The offsets a client that follows the replies may name in a Tread.
Offsets == {0, 2, 5}
Names(n) == [j \in 1..n |-> j]

VARIABLES
    fids,      \* srv.fids: fid id -> record (NoRec when absent)
    recs,      \* the fid records ever allocated, by the message that made them
    vals,      \* the back-end fid values ever produced
    tasks,     \* the xtag and goroutine of each message in flight
    nmsgs,     \* messages read so far
    panicked,  \* a goroutine has panicked: the process is gone
    closes,    \* calls of fs.Close: Serve has returned when it is not 0
    serve,     \* where Serve is (pc) and the error it returned (err)
    conn,      \* srv.conn: whether a Write takes time, and who is in one
    params,    \* staticfsys.Params.Root: the tree handed to New
    static,    \* the static back-end New made: its processed tree (fs.root)
    bufs,      \* the buffer files (bufFile) made by NewBuffer
    sfids,     \* the Fid values of the static back-end that are in use
    depth,     \* how many clone wrappers are nested around the static back-end
    cfids,     \* the Fid values of the outermost clone wrapper that are in use
    res,       \* what the latest call of a back-end returned
    last       \* what the latest step did (request, reply, back-end call)

\* The variables of the runtime, and those of the back-ends under it.
server == <<fids, recs, vals, tasks, nmsgs, panicked, closes, serve, conn, last>>
backend == <<params, static, bufs, sfids, depth, cfids, res>>
vars == <<server, backend>>

\* ------------------------------------------------------------ fid record
\* type fid: id, refCount, mu (w: writer held, r: readers), fid (val),
\* attached, open, openMode, iounit, dirMu (held or not), dirOffset,
\* dirIndex, dirEntries (the encoded sizes of the entries buffered).
FreeRec == [id |-> NOFID, refCount |-> 0, w |-> FALSE, r |-> 0, val |-> NoVal,
            attached |-> FALSE, open |-> FALSE, openMode |-> OREAD,
            iounit |-> 0, dirMu |-> FALSE, dirOffset |-> 0, dirIndex |-> 0,
            dirEntries |-> <<>>]

\* initTag: a new record holds one reference for the fid table and one for
\* the xtag, and is locked exclusively (f.mu.lock(nil)).
NewRec(id) == [FreeRec EXCEPT !.id = id, !.refCount = 2, !.w = TRUE]

FreeVal == [used |-> FALSE, qid |-> 0, clunks |-> 0, running |-> 0]

\* What a step did: the request it belongs to (type, fid, newfid, n names),
\* the reply it sent ("none" when it sent none) with its Wqid, the error the
\* reader loop met, the records the request named (rec) and made (nrec),
\* whether rec was found and locked, and the back-end call made: op on val,
\* stale when val had been clunked before, q the Qid the call started from
\* and k the number of names the back-end's Walk accepted. For a reply,
\* tag is the Tag it carries and data the Data of an Rread (the sizes of the
\* pieces appended to it); req is the request's own tag, offset, count and
\* mode its fields, and limit the byte limit a read worked with.
NoEvent == [step |-> "init", type |-> "none", fid |-> NOFID,
            newfid |-> NOFID, reply |-> "none", wqid |-> <<>>, n |-> 0, k |-> 0,
            err |-> "", found |-> FALSE, locked |-> FALSE, rec |-> NoRec,
            nrec |-> NoRec, op |-> "none", val |-> NoVal, stale |-> FALSE,
            q |-> 0, req |-> 0, tag |-> 0, data |-> <<>>, offset |-> 0,
            count |-> 0, mode |-> OREAD, limit |-> 0, mversion |-> "",
            version |-> "", readErr |-> ""]

\* type xtag, with the goroutine's position (pc), the working fid of a walk
\* (tmp), the value a running back-end call acts on (opval) and the reply
\* that waits for the end of releaseTag (ev); tag, offset and count are
\* fields of t.m, and buf is the buffer readDir is filling.
IdleTask == [pc |-> "none", type |-> "none", mfid |-> NOFID, mnewfid |-> NOFID,
             fid |-> NoRec, excl |-> FALSE, newFid |-> NoRec, mode |-> OREAD,
             n |-> 0, tmp |-> NoVal, opval |-> NoVal, ev |-> NoEvent,
             tag |-> 0, offset |-> 0, count |-> 0, buf |-> <<>>]

\* The shared state the runtime's helpers act on.
Cur == [fids |-> fids, recs |-> recs, vals |-> vals, panicked |-> panicked]

Commit(S) ==
    /\ fids' = S.fids
    /\ recs' = S.recs
    /\ vals' = S.vals
    /\ panicked' = S.panicked

\* ------------------------------------------------------------- back-end
\* Qid(f).IsDir() of the value in a slot; a zero value is no directory.
IsDirQid(q) == q < FileDepth
isDir(S, r) == S.recs[r].val # NoVal /\ IsDirQid(S.vals[S.recs[r].val].qid)

QidOf(S, v) == IF v = NoVal THEN 0 ELSE S.vals[v].qid

\* fs.Clunk(f)
Clunk(S, v) ==
    IF v = NoVal THEN S ELSE [S EXCEPT !.vals[v].clunks = @ + 1]

\* A fresh back-end value at Qid q (the result of Attach, or of Clone).
MakeVal(S, v, q) == [S EXCEPT !.vals[v] = [FreeVal EXCEPT !.used = TRUE, !.qid = q]]

\* The two values message i may produce.
ValA(i) == 2 * i - 1
ValB(i) == 2 * i

\* --------------------------------------------------------------- rwMutex
\* lock and rlock never block: they report whether the lock was taken.
CanLock(r) == ~r.w /\ r.r = 0
CanRLock(r) == ~r.w

lock(S, f) == [S EXCEPT !.recs[f].w = TRUE]
rlock(S, f) == [S EXCEPT !.recs[f].r = @ + 1]
unlock(S, f) == [S EXCEPT !.recs[f].w = FALSE]
runlock(S, f) == [S EXCEPT !.recs[f].r = @ - 1]

\* ------------------------------------------------------ refcounts, table
\* releaseFid: drop one reference; Clunk when it reaches zero and the
\* record is attached.
releaseFid(S, f) ==
    LET S1 == [S EXCEPT !.recs[f].refCount = @ - 1]
    IN  IF S1.recs[f].refCount = 0 /\ S1.recs[f].attached
        THEN Clunk(S1, S1.recs[f].val)
        ELSE S1

\* delFid: panics when the table has no entry for f.id; otherwise deletes
\* the entry for f.id and drops the table's reference to f.
delFid(S, f) ==
    IF S.fids[S.recs[f].id] = NoRec
    THEN [S EXCEPT !.panicked = TRUE]
    ELSE releaseFid([S EXCEPT !.fids[S.recs[f].id] = NoRec], f)

\* releaseTag, up to (not including) the delFid of a failed new fid.
releaseHeld(S, t) ==
    LET S1 == IF t.fid = NoRec THEN S
              ELSE releaseFid(IF t.excl THEN unlock(S, t.fid) ELSE runlock(S, t.fid),
                              t.fid)
    IN  IF t.newFid = NoRec THEN S1
        ELSE releaseFid(unlock(S1, t.newFid), t.newFid)

\* releaseTag(t, success) as the reader loop runs it, in one piece.
releaseTag(S, t, success) ==
    LET S1 == releaseHeld(S, t)
    IN  IF t.newFid = NoRec \/ success THEN S1 ELSE delFid(S1, t.newFid)

\* reply: whether the reply m counts as a failure. Wname is the reply's
\* own field, which no handler sets.
replyFail(rtype, wqid, wname) ==
    rtype = "Rerror" \/ (rtype = "Rwalk" /\ Len(wqid) < Len(wname))

\* ---------------------------------------------------------------- initTag
\* The fid a message introduces, the fid it refers to, and its lock mode.
nfidOf(m) ==
    CASE m.type = "Tattach" -> m.fid
      [] m.type = "Twalk" -> IF m.newfid # m.fid THEN m.newfid ELSE NOFID
      [] OTHER -> NOFID

fidOf(m) == IF m.type = "Tattach" THEN m.afid ELSE m.fid

exclOf(m) ==
    \/ m.type \in {"Topen", "Tremove", "Tclunk"}
    \/ (m.type = "Twalk" /\ m.fid = m.newfid)

\* A variant of dropsOnFail in which no message type installs onFail.
dropsOnFailNever(m) == FALSE

dropsOnFail(m) == m.type \in {"Tclunk", "Tremove"}

\* onFail of a Tclunk/Tremove that cannot lock: the table's reference is
\* dropped and the entry deleted, under srv.mu.
onFail(S, m, f) ==
    IF dropsOnFail(m)
    THEN [S EXCEPT !.recs[f].refCount = @ - 1, !.fids[fidOf(m)] = NoRec]
    ELSE S

\* A variant of fidInUse that never finds the fid in use.
fidInUseNever(S, nfid) == FALSE

\* initTag: the fid the message introduces is already in the table.
fidInUse(S, nfid) == nfid # NOFID /\ S.fids[nfid] # NoRec

\* initTag for message number i. The result carries the new state, the
\* xtag's fields and the error ("" when none).
initTag(S, i, m) ==
    LET nfid == nfidOf(m)
        inUse == fidInUse(S, nfid)
        nf == IF nfid # NOFID THEN i ELSE NoRec
        S1 == IF nfid # NOFID
              THEN [S EXCEPT !.recs[i] = NewRec(nfid), !.fids[nfid] = i]
              ELSE S
        fid == fidOf(m)
        f == IF fid = NOFID THEN NoRec ELSE S1.fids[fid]
        excl == exclOf(m)
        ok == IF excl THEN CanLock(S1.recs[f]) ELSE CanRLock(S1.recs[f])
        S2 == IF excl THEN lock(S1, f) ELSE rlock(S1, f)
        none == [S |-> S, err |-> "", fid |-> NoRec, excl |-> FALSE,
                 newFid |-> NoRec, rec |-> NoRec]
    IN  IF inUse THEN [none EXCEPT !.err = "fid already in use"]
        ELSE IF fid = NOFID
        THEN IF m.type = "Tattach"
             THEN [none EXCEPT !.S = S1, !.newFid = nf]
             ELSE [none EXCEPT !.S = S1, !.newFid = nf, !.err = "invalid fid"]
        ELSE IF f = NoRec
        THEN [none EXCEPT !.S = S1, !.newFid = nf, !.err = "invalid fid"]
        ELSE IF ~ok
        THEN [none EXCEPT !.S = onFail(S1, m, f), !.newFid = nf, !.rec = f,
                          !.err = "fid in use"]
        ELSE [none EXCEPT !.S = [S2 EXCEPT !.recs[f].refCount = @ + 1],
                          !.newFid = nf, !.fid = f, !.excl = excl, !.rec = f]


\* ------------------------------------------------------- handlers (sync)
canRead(mode) == (mode % 4) \in {0, 2, 3}
canWrite(mode) == (mode % 4) \in {1, 2}

\* The error a handler returns before it spawns its goroutine ("" when it
\* spawns). A type with no entry in srv.operations gets "bad operation type".
\* A variant of handleWalkErr without the check for an open fid.
handleWalkErrNoCheck(S, t) == ""

handleWalkErr(S, t) ==
    IF S.recs[t.fid].open THEN "cannot walk open fid" ELSE ""

\* The permission-denied sentinel.
errPerm == "permission denied"

\* handleOpen compares the whole Mode byte with OWRITE, ORDWR and OEXEC.
handleOpenErr(S, t, m) ==
    IF S.recs[t.fid].open THEN "fid is already open"
    ELSE IF isDir(S, t.fid) /\ m.mode \in {OWRITE, ORDWR, OEXEC} THEN errPerm
    ELSE ""

handleReadErr(S, t) ==
    IF ~S.recs[t.fid].open THEN "fid not open"
    ELSE IF ~canRead(S.recs[t.fid].openMode) THEN errPerm
    ELSE ""

\* handleWrite returns an error of its own text when the mode does not
\* allow writing; the `return errPerm` after it is never reached.
handleWriteErr(S, t) ==
    IF ~S.recs[t.fid].open THEN "fid not open"
    ELSE IF ~canWrite(S.recs[t.fid].openMode) THEN "cannot write; omode"
    ELSE IF isDir(S, t.fid) THEN "cannot write to a directory"
    ELSE ""

operations == {"Tattach", "Tstat", "Twalk", "Tread", "Twrite", "Topen", "Tclunk"}

handlerErr(S, t, m) ==
    CASE m.type \notin operations -> "bad operation type"
      [] m.type = "Twalk" -> handleWalkErr(S, t)
      [] m.type = "Topen" -> handleOpenErr(S, t, m)
      [] m.type = "Tread" -> handleReadErr(S, t)
      [] m.type = "Twrite" -> handleWriteErr(S, t)
      [] OTHER -> ""

\* A T-message; the client numbers its requests and uses the number as
\* the tag.
Msg(type, fid, newfid, afid, mode, n) ==
    [type |-> type, fid |-> fid, newfid |-> newfid, afid |-> afid,
     mode |-> mode, n |-> n, tag |-> nmsgs + 1, offset |-> 0, count |-> 0]

TreadMsg(fid, offset, count) ==
    [Msg("Tread", fid, NOFID, NOFID, OREAD, 0) EXCEPT !.offset = offset,
                                                      !.count = count]

\* A variant of replyTag that leaves the reply's Tag zero.
replyTagZero(t) == 0

\* reply: m.Tag = t.m.Tag
replyTag(t) == t.tag

ReadEvent(m, r, err) ==
    [NoEvent EXCEPT !.step = "read", !.type = m.type, !.fid = m.fid,
                    !.newfid = m.newfid, !.n = m.n, !.err = err,
                    !.reply = IF err = "" THEN "none" ELSE "Rerror",
                    !.found = (fidOf(m) # NOFID /\ fids[fidOf(m)] # NoRec),
                    !.locked = (r.fid # NoRec), !.rec = r.rec,
                    !.nrec = r.newFid, !.req = m.tag,
                    !.tag = IF err = "" THEN 0 ELSE replyTag(m),
                    !.offset = m.offset, !.count = m.count, !.mode = m.mode]

\* srv.sendMessage by goroutine who, after the step has produced a reply:
\* on a connection whose Write takes time, who is inside Write from now on.
sendMessage(who) ==
    conn' = IF conn.stream /\ last'.reply # "none"
            THEN [conn EXCEPT !.writers = @ \cup {who}]
            ELSE conn

\* What readMessage returns besides a message: io.EOF at a message
\* boundary, or another read error.
ReadErrs == {"EOF", "read failed"}
\* The messages a client may send first.
Versions == {"9P2000", "9P2000.u"}
FirstMsgs == [type : {"Tversion"}, version : Versions, tag : {1, 2}]
                 \cup [type : {"Tattach"}, version : {""}, tag : {1}]

versionAny(v) == TRUE

\* Serve's test of the version the client names.
versionOK(v) == v = "9P2000"

\* The version of the Rversion that answers a Tversion naming v.
Rversion(v) == IF versionOK(v) THEN v ELSE "unknown"

\* What Serve returns from its handshake ("" when it goes on to its loop),
\* given the outcome of the first readMessage.
handshakeErr(err, m) ==
    IF err # "" THEN err
    ELSE IF m.type # "Tversion" THEN "first message is not Tversion"
    ELSE IF ~versionOK(m.version) THEN "unknown version"
    ELSE ""

\* What Serve returns from its loop when readMessage fails with err:
\* nil ("") for io.EOF.
loopReturn(err) == IF err = "EOF" THEN "" ELSE err

\* One iteration of Serve's loop on message m: newTag (initTag), the lookup
\* in srv.operations, and the handler up to its go statement. An error on
\* the way is answered with Rerror by the loop itself.
Serve(m) ==
    /\ ~panicked
    /\ serve.pc = "loop"
    /\ ServeLoop \notin conn.writers
    /\ nmsgs < MaxDirMsgs
    /\ LET i == nmsgs + 1
           r == initTag(Cur, i, m)
           t == [IdleTask EXCEPT !.type = m.type, !.mfid = m.fid,
                                 !.mnewfid = m.newfid, !.fid = r.fid,
                                 !.excl = r.excl, !.newFid = r.newFid,
                                 !.mode = m.mode, !.n = m.n, !.tag = m.tag,
                                 !.offset = m.offset, !.count = m.count]
           err == IF r.err # "" THEN r.err ELSE handlerErr(r.S, t, m)
       IN  /\ nmsgs' = i
           /\ IF err # ""
              THEN /\ Commit(releaseTag(r.S, t, FALSE))
                   /\ tasks' = tasks
                   /\ last' = ReadEvent(m, r, err)
              ELSE /\ Commit(r.S)
                   /\ tasks' = [tasks EXCEPT ![i] = [t EXCEPT !.pc = "spawned"]]
                   /\ last' = ReadEvent(m, r, "")
    /\ sendMessage(ServeLoop)
    /\ UNCHANGED <<closes, serve, backend>>

\* The messages of a client that uses every fid id and reads directories
\* whole, from offset 0.
ReadTattach == \E f \in Fids, a \in Fids \cup {NOFID} :
                   nmsgs < MaxMsgs /\ Serve(Msg("Tattach", f, NOFID, a, OREAD, 0))
ReadTstat == \E f \in Fids :
                 nmsgs < MaxMsgs /\ Serve(Msg("Tstat", f, NOFID, NOFID, OREAD, 0))
ReadTwalk == \E f \in Fids, nf \in Fids, n \in 0..MaxNames :
                 nmsgs < MaxMsgs /\ Serve(Msg("Twalk", f, nf, NOFID, OREAD, n))
ReadTopen == \E f \in Fids, mode \in Modes :
                 nmsgs < MaxMsgs /\ Serve(Msg("Topen", f, NOFID, NOFID, mode, 0))
ReadTread == \E f \in Fids :
                 nmsgs < MaxMsgs /\ Serve(TreadMsg(f, 0, DefaultIounit))
ReadTwrite == \E f \in Fids :
                  nmsgs < MaxMsgs /\ Serve(Msg("Twrite", f, NOFID, NOFID, OREAD, 0))
ReadTclunk == \E f \in Fids :
                  nmsgs < MaxMsgs /\ Serve(Msg("Tclunk", f, NOFID, NOFID, OREAD, 0))
ReadTremove == \E f \in Fids :
                   nmsgs < MaxMsgs /\ Serve(Msg("Tremove", f, NOFID, NOFID, OREAD, 0))

\* The messages of a client that keeps to fid 1: it attaches, walks in
\* place, opens with any mode, and reads with any count at the offsets the
\* replies can lead it to.
DirTattach == Serve(Msg("Tattach", 1, NOFID, NOFID, OREAD, 0))
DirTwalk == \E n \in 1..MaxNames : Serve(Msg("Twalk", 1, 1, NOFID, OREAD, n))
DirTopen == \E mode \in AllModes : Serve(Msg("Topen", 1, NOFID, NOFID, mode, 0))
DirTread == \E offset \in Offsets, count \in Counts :
                Serve(TreadMsg(1, offset, count))
DirTwrite == Serve(Msg("Twrite", 1, NOFID, NOFID, OREAD, 0))
DirTclunk == Serve(Msg("Tclunk", 1, NOFID, NOFID, OREAD, 0))

\* ------------------------------------------------- handlers (goroutines)
TaskEvent(i, step, reply) ==
    [NoEvent EXCEPT !.step = step, !.type = tasks[i].type,
                    !.fid = tasks[i].mfid, !.newfid = tasks[i].mnewfid,
                    !.reply = reply, !.n = tasks[i].n,
                    !.rec = tasks[i].fid, !.nrec = tasks[i].newFid,
                    !.found = TRUE, !.locked = TRUE, !.req = tasks[i].tag,
                    !.offset = tasks[i].offset, !.count = tasks[i].count,
                    !.mode = tasks[i].mode]

\* reply(t, m) from a goroutine: releaseTag, then the message is sent. The
\* delFid of a failed new fid is a step of its own (pc "delnew"), and the
\* reply goes out after it.
Reply(i, S, rtype, wqid, ev) ==
    LET t == tasks[i]
        fail == replyFail(rtype, wqid, <<>>)
        S1 == releaseHeld(S, t)
    IN  /\ Commit(S1)
        /\ IF fail /\ t.newFid # NoRec
           THEN /\ tasks' = [tasks EXCEPT ![i] =
                               [t EXCEPT !.pc = "delnew",
                                         !.ev = [ev EXCEPT !.step = "deln",
                                                           !.reply = rtype,
                                                           !.wqid = wqid,
                                                           !.tag = replyTag(t)]]]
                /\ last' = [ev EXCEPT !.reply = "none"]
           ELSE /\ tasks' = [tasks EXCEPT ![i] = IdleTask]
                /\ last' = [ev EXCEPT !.reply = rtype, !.wqid = wqid,
                                      !.tag = replyTag(t)]

\* The tail of releaseTag for a failed request that made a new fid:
\* srv.delFid(t.newFid), then sendMessage.
DelNewFid(i) ==
    /\ ~panicked
    /\ tasks[i].pc = "delnew"
    /\ LET S1 == delFid(Cur, tasks[i].newFid)
       IN  /\ Commit(S1)
           /\ IF S1.panicked
              THEN /\ tasks' = tasks
                   /\ last' = TaskEvent(i, "panic", "none")
              ELSE /\ tasks' = [tasks EXCEPT ![i] = IdleTask]
                   /\ last' = tasks[i].ev
    /\ sendMessage(i)
    /\ UNCHANGED <<nmsgs, closes, serve, backend>>

\* handleAttach's goroutine: fs.Attach into the new record's slot.
AttachTask(i) ==
    /\ ~panicked
    /\ tasks[i].pc = "spawned" /\ tasks[i].type = "Tattach"
    /\ LET nf == tasks[i].newFid
           ev == [TaskEvent(i, "ret", "none") EXCEPT !.op = "Attach"]
       IN  \E out \in {"err", "dir", "file"} :
             IF out = "err"
             THEN Reply(i, Cur, "Rerror", <<>>, ev)
             ELSE LET q == IF out = "dir" THEN 0 ELSE FileDepth
                      S1 == MakeVal(Cur, ValA(i), q)
                      S2 == [S1 EXCEPT !.recs[nf].val = ValA(i),
                                       !.recs[nf].attached = TRUE]
                      ev2 == [ev EXCEPT !.val = ValA(i), !.q = q]
                  IN  IF ~IsDirQid(q)
                      THEN Reply(i, S2, "Rerror", <<>>, ev2)
                      ELSE Reply(i, S2, "Rattach", <<>>, ev2)
    /\ sendMessage(i)
    /\ UNCHANGED <<nmsgs, closes, serve, backend>>

\* A handler goroutine enters a back-end call on the value in t.fid's slot.
CallOp(i, type, op) ==
    /\ ~panicked
    /\ tasks[i].pc = "spawned" /\ tasks[i].type = type
    /\ LET v == recs[tasks[i].fid].val
       IN  /\ vals' = IF v = NoVal THEN vals
                      ELSE [vals EXCEPT ![v].running = @ + 1]
           /\ tasks' = [tasks EXCEPT ![i].pc = "inop", ![i].opval = v]
           /\ last' = [TaskEvent(i, "call", "none") EXCEPT
                          !.op = op, !.val = v,
                          !.stale = (v # NoVal /\ vals[v].clunks > 0)]
    /\ UNCHANGED <<fids, recs, nmsgs, panicked, closes, serve, conn, backend>>

\* The state once the back-end call of task i has returned.
Returned(i) ==
    LET v == tasks[i].opval
    IN  IF v = NoVal THEN Cur
        ELSE [Cur EXCEPT !.vals[v].running = @ - 1]

\* handleStat's goroutine: fs.Stat, then Rstat or Rerror.
StatCall(i) == CallOp(i, "Tstat", "Stat")
StatReturn(i) ==
    /\ ~panicked
    /\ tasks[i].pc = "inop" /\ tasks[i].type = "Tstat"
    /\ \E ok \in BOOLEAN :
         Reply(i, Returned(i), IF ok THEN "Rstat" ELSE "Rerror", <<>>,
               TaskEvent(i, "ret", "none"))
    /\ sendMessage(i)
    /\ UNCHANGED <<nmsgs, closes, serve, backend>>

\* The iounit the back-end's Open returns for a file at Qid q: 0 at the
\* root, a few bytes below it.
OpenIounit(q) == CASE q = 0 -> 0 [] q = 1 -> 3 [] OTHER -> 4

\* handleOpen: an iounit of 0 stands for the default.
iounitOf(n) == IF n = 0 THEN DefaultIounit ELSE n

\* handleOpen's goroutine: fs.Open; on success the record becomes open.
OpenCall(i) == CallOp(i, "Topen", "Open")
OpenReturn(i) ==
    /\ ~panicked
    /\ tasks[i].pc = "inop" /\ tasks[i].type = "Topen"
    /\ \E ok \in BOOLEAN :
         IF ok
         THEN Reply(i, [Returned(i) EXCEPT !.recs[tasks[i].fid].open = TRUE,
                                           !.recs[tasks[i].fid].openMode = tasks[i].mode,
                                           !.recs[tasks[i].fid].iounit =
                                               iounitOf(OpenIounit(QidOf(Cur, tasks[i].opval)))],
                    "Ropen", <<>>, TaskEvent(i, "ret", "none"))
         ELSE Reply(i, Returned(i), "Rerror", <<>>, TaskEvent(i, "ret", "none"))
    /\ sendMessage(i)
    /\ UNCHANGED <<nmsgs, closes, serve, backend>>

min(a, b) == IF a < b THEN a ELSE b

RECURSIVE Sum(_)
Sum(seq) == IF seq = <<>> THEN 0 ELSE Head(seq) + Sum(Tail(seq))

\* The byte limit of a read: min(count, iounit).
readLimit(S, t) == min(t.count, S.recs[t.fid].iounit)

\* handleRead's goroutine on a plain file: fs.ReadAt with a buffer of
\* min(iounit, count) bytes, of which the back-end fills none or all; an
\* error with no bytes read is answered with Rerror.
ReadCall(i) ==
    /\ tasks[i].pc = "spawned" /\ tasks[i].type = "Tread"
    /\ ~isDir(Cur, tasks[i].fid)
    /\ CallOp(i, "Tread", "ReadAt")
ReadReturn(i) ==
    /\ ~panicked
    /\ tasks[i].pc = "inop" /\ tasks[i].type = "Tread"
    /\ LET limit == readLimit(Cur, tasks[i])
       IN  \E n \in {0, limit}, failed \in BOOLEAN :
             LET ev == [TaskEvent(i, "ret", "none") EXCEPT
                            !.op = "ReadAt", !.limit = limit,
                            !.data = IF n = 0 THEN <<>> ELSE <<n>>]
             IN  IF failed /\ n = 0
                 THEN Reply(i, Returned(i), "Rerror", <<>>, [ev EXCEPT !.err = "read failed"])
                 ELSE Reply(i, Returned(i), "Rread", <<>>, ev)
    /\ sendMessage(i)
    /\ UNCHANGED <<nmsgs, closes, serve, backend>>

\* fs.Readdir(f, f.dirEntryBuf, index) on a directory that does not change:
\* the entries from index on, as many as the buffer holds.
Readdir(index) ==
    SubSeq(DirSizes, index + 1, min(Len(DirSizes), index + DirEntryBuf))

\* A variant of illegalOffset that accepts every offset.
illegalOffsetNever(offset, dirOffset) == FALSE

\* readDir: an offset other than 0 and other than f.dirOffset is refused.
illegalOffset(offset, dirOffset) == offset # 0 /\ offset # dirOffset

\* A variant of tooSmall that lets every first entry through.
tooSmallNever(buf, nbuf, limit) == FALSE

\* readDir: the first entry of a read does not fit: len(buf) > limit with
\* oldLen == 0, where nbuf is buf with the entry appended.
tooSmall(buf, nbuf, limit) == Sum(nbuf) > limit /\ Sum(buf) = 0

\* The for loop of readDir from (f.dirEntries, f.dirIndex, buf), up to the
\* point where it needs fs.Readdir ("refill"), fails ("small") or breaks
\* ("done"). An entry is appended to buf before buf is compared with limit.
RECURSIVE readDirLoop(_, _, _, _)
readDirLoop(entries, index, buf, limit) ==
    IF entries = <<>>
    THEN [out |-> "refill", entries |-> entries, index |-> index, buf |-> buf]
    ELSE LET nbuf == Append(buf, Head(entries))
         IN  IF tooSmall(buf, nbuf, limit)
             THEN [out |-> "small", entries |-> entries, index |-> index,
                   buf |-> nbuf]
             ELSE IF Sum(nbuf) >= limit
             THEN [out |-> "done", entries |-> entries, index |-> index,
                   buf |-> nbuf]
             ELSE readDirLoop(Tail(entries), index + 1, nbuf, limit)

\* readDir after a turn of its loop, with f.dirMu held in S: the next call
\* of fs.Readdir, or the error, or the Rread followed by the update of
\* f.dirOffset; dirMu is released on return.
readDirNext(i, S, r) ==
    LET t == tasks[i]
        f == t.fid
        v == S.recs[f].val
        S1 == [S EXCEPT !.recs[f].dirEntries = r.entries,
                        !.recs[f].dirIndex = r.index]
        ev == [TaskEvent(i, "ret", "none") EXCEPT
                   !.op = "Readdir", !.limit = readLimit(S, t)]
    IN  CASE r.out = "refill" ->
               /\ Commit(IF v = NoVal THEN S1
                         ELSE [S1 EXCEPT !.vals[v].running = @ + 1])
               /\ tasks' = [tasks EXCEPT ![i].pc = "indir", ![i].opval = v,
                                         ![i].buf = r.buf]
               /\ last' = [TaskEvent(i, "call", "none") EXCEPT
                              !.op = "Readdir", !.val = v,
                              !.stale = (v # NoVal /\ S.vals[v].clunks > 0)]
          [] r.out = "small" ->
               Reply(i, [S1 EXCEPT !.recs[f].dirMu = FALSE], "Rerror", <<>>,
                     [ev EXCEPT !.err = "directory read count too small"])
          [] OTHER ->
               Reply(i, [S1 EXCEPT !.recs[f].dirMu = FALSE,
                                   !.recs[f].dirOffset = @ + Sum(r.buf)],
                     "Rread", <<>>, [ev EXCEPT !.data = r.buf])

\* handleRead's goroutine on a directory: readDir from f.dirMu.Lock() to
\* its first call of fs.Readdir, or to its return when the buffered entries
\* suffice. The goroutine waits while another holds f.dirMu.
readDir(i) ==
    /\ ~panicked
    /\ tasks[i].pc = "spawned" /\ tasks[i].type = "Tread"
    /\ isDir(Cur, tasks[i].fid)
    /\ ~recs[tasks[i].fid].dirMu
    /\ LET t == tasks[i]
           f == t.fid
           S1 == [Cur EXCEPT !.recs[f].dirMu = TRUE]
           S2 == IF t.offset = 0
                 THEN [S1 EXCEPT !.recs[f].dirOffset = 0,
                                 !.recs[f].dirIndex = 0,
                                 !.recs[f].dirEntries = <<>>]
                 ELSE S1
       IN  IF illegalOffset(t.offset, recs[f].dirOffset)
           THEN Reply(i, Cur, "Rerror", <<>>,
                      [TaskEvent(i, "ret", "none") EXCEPT
                           !.op = "Readdir", !.err = "illegal read offset in directory"])
           ELSE readDirNext(i, S2, readDirLoop(S2.recs[f].dirEntries,
                                               S2.recs[f].dirIndex, <<>>,
                                               readLimit(S2, t)))
    /\ sendMessage(i)
    /\ UNCHANGED <<nmsgs, closes, serve, backend>>

\* readDir when fs.Readdir returns: an error ends the read; no entry ends
\* the loop; otherwise the loop goes on with the entries read.
readDirReturn(i) ==
    /\ ~panicked
    /\ tasks[i].pc = "indir" /\ tasks[i].type = "Tread"
    /\ LET t == tasks[i]
           f == t.fid
           S == Returned(i)
           ents == Readdir(S.recs[f].dirIndex)
       IN  \E ok \in BOOLEAN :
             IF ~ok
             THEN Reply(i, [S EXCEPT !.recs[f].dirMu = FALSE], "Rerror", <<>>,
                        [TaskEvent(i, "ret", "none") EXCEPT
                             !.op = "Readdir", !.err = "readdir failed"])
             ELSE IF ents = <<>>
             THEN readDirNext(i, S, [out |-> "done", entries |-> <<>>,
                                     index |-> S.recs[f].dirIndex,
                                     buf |-> t.buf])
             ELSE readDirNext(i, S, readDirLoop(ents, S.recs[f].dirIndex,
                                                t.buf, readLimit(S, t)))
    /\ sendMessage(i)
    /\ UNCHANGED <<nmsgs, closes, serve, backend>>

\* handleWrite's goroutine: fs.WriteAt.
WriteCall(i) == CallOp(i, "Twrite", "WriteAt")
WriteReturn(i) ==
    /\ ~panicked
    /\ tasks[i].pc = "inop" /\ tasks[i].type = "Twrite"
    /\ \E ok \in BOOLEAN :
         Reply(i, Returned(i), IF ok THEN "Rwrite" ELSE "Rerror", <<>>,
               TaskEvent(i, "ret", "none"))
    /\ sendMessage(i)
    /\ UNCHANGED <<nmsgs, closes, serve, backend>>

\* handleClunk's goroutine: srv.delFid(t.fid) ...
ClunkDel(i) ==
    /\ ~panicked
    /\ tasks[i].pc = "spawned" /\ tasks[i].type = "Tclunk"
    /\ LET S1 == delFid(Cur, tasks[i].fid)
       IN  /\ Commit(S1)
           /\ IF S1.panicked
              THEN /\ tasks' = tasks
                   /\ last' = TaskEvent(i, "panic", "none")
              ELSE /\ tasks' = [tasks EXCEPT ![i].pc = "reply"]
                   /\ last' = TaskEvent(i, "cdel", "none")
    /\ sendMessage(i)
    /\ UNCHANGED <<nmsgs, closes, serve, backend>>

\* ... then srv.reply(t, Rclunk).
ClunkReply(i) ==
    /\ ~panicked
    /\ tasks[i].pc = "reply" /\ tasks[i].type = "Tclunk"
    /\ Reply(i, Cur, "Rclunk", <<>>, TaskEvent(i, "ret", "none"))
    /\ sendMessage(i)
    /\ UNCHANGED <<nmsgs, closes, serve, backend>>

\* The loop of srv.walk over names, for a back-end that accepts the first
\* succ of them: the Qids gathered, whether a Walk failed, and the Qid
\* the working fid ends at.
\* A variant of walkNames that appends the Qid before the Walk is tried.
RECURSIVE walkNamesEager(_, _, _, _)
walkNamesEager(q, names, succ, qids) ==
    IF names = <<>> THEN [qids |-> qids, err |-> FALSE, q |-> q]
    ELSE IF succ = 0 THEN [qids |-> Append(qids, q), err |-> TRUE, q |-> q]
    ELSE walkNamesEager(q + 1, Tail(names), succ - 1, Append(qids, q + 1))

RECURSIVE walkNames(_, _, _, _)
walkNames(q, names, succ, qids) ==
    IF names = <<>> THEN [qids |-> qids, err |-> FALSE, q |-> q]
    ELSE IF succ = 0 THEN [qids |-> qids, err |-> TRUE, q |-> q]
    ELSE walkNames(q + 1, Tail(names), succ - 1, Append(qids, q + 1))

\* The number of names the back-end may accept from Qid q: a Walk from a
\* plain file fails.
MaxSucc(q, n) == IF FileDepth - q < 0 THEN 0
                 ELSE IF FileDepth - q < n THEN FileDepth - q ELSE n

\* The working fid of srv.walk: the new record's slot, or a temporary.
workingInPlace(t) == t.newFid = NoRec

\* A variant of workingVal that walks an in-place Twalk on the source's own
\* value.
workingValNoTemp(t, src, nv) ==
    IF workingInPlace(t) /\ src # NoVal THEN src ELSE nv

\* The value srv.walk walks: the clone nv, never the source's value src.
workingVal(t, src, nv) == nv

\* srv.walk, first half: the working fid is seeded with fs.Clone from the
\* source.
WalkClone(i) ==
    /\ ~panicked
    /\ tasks[i].pc = "spawned" /\ tasks[i].type = "Twalk"
    /\ LET t == tasks[i]
           src == recs[t.fid].val
           nv == ValA(i)
           S1 == MakeVal(Cur, nv, QidOf(Cur, src))
           wv == workingVal(t, src, nv)
           S2 == IF t.n > 0 /\ wv # NoVal THEN [S1 EXCEPT !.vals[wv].running = @ + 1]
                 ELSE S1
           S3 == IF workingInPlace(t) THEN S2
                 ELSE [S2 EXCEPT !.recs[t.newFid].val = nv]
       IN  /\ Commit(S3)
           /\ tasks' = [tasks EXCEPT ![i].pc = "inop",
                                     ![i].tmp = workingVal(t, src, nv)]
           /\ last' = [TaskEvent(i, "call", "none") EXCEPT
                          !.op = "Clone", !.val = src,
                          !.stale = (src # NoVal /\ vals[src].clunks > 0)]
    /\ sendMessage(i)
    /\ UNCHANGED <<nmsgs, closes, serve, backend>>

\* srv.walk, second half, and the reply of handleWalk's goroutine.
WalkReturn(i) ==
    /\ ~panicked
    /\ tasks[i].pc = "inop" /\ tasks[i].type = "Twalk"
    /\ LET t == tasks[i]
           nv == t.tmp
           q0 == vals[nv].qid
       IN  \E succ \in 0..MaxSucc(q0, t.n) :
             LET w == walkNames(q0, Names(t.n), succ, <<>>)
                 S1 == [Cur EXCEPT !.vals[nv].running = IF t.n > 0 THEN @ - 1 ELSE @,
                                   !.vals[nv].qid = w.q]
                 ev == [TaskEvent(i, "ret", "none") EXCEPT
                            !.op = "Walk", !.val = nv, !.k = succ, !.q = q0]
             IN  IF w.err
                 THEN LET S2 == Clunk(S1, nv)
                      IN  IF Len(w.qids) = 0 /\ t.n > 0
                          THEN Reply(i, S2, "Rerror", <<>>, ev)
                          ELSE Reply(i, S2, "Rwalk", w.qids, ev)
                 ELSE LET S2 == IF ~workingInPlace(t)
                                THEN [S1 EXCEPT !.recs[t.newFid].attached = TRUE]
                                ELSE [MakeVal(Clunk(S1, S1.recs[t.fid].val),
                                              ValB(i), w.q)
                                        EXCEPT !.recs[t.fid].val = ValB(i)]
                      IN  Reply(i, S2, "Rwalk", w.qids, ev)
    /\ sendMessage(i)
    /\ UNCHANGED <<nmsgs, closes, serve, backend>>

\* Serve returns: readMessage met the end of the connection (nil) or a
\* read error, and the deferred fs.Close() runs. The goroutines started
\* before go on.
ServeReturn ==
    /\ ~panicked
    /\ serve.pc = "loop"
    /\ ServeLoop \notin conn.writers
    /\ closes' = closes + 1
    /\ \E err \in ReadErrs :
         /\ serve' = [pc |-> "returned", err |-> loopReturn(err)]
         /\ last' = [NoEvent EXCEPT !.step = "eof", !.readErr = err,
                                     !.err = loopReturn(err)]
    /\ UNCHANGED <<fids, recs, vals, tasks, nmsgs, panicked, conn, backend>>

\* The start of Serve: the first message must be a Tversion naming
\* "9P2000". Every return runs the deferred fs.Close().
Handshake ==
    /\ ~panicked
    /\ serve.pc = "version"
    /\ \E err \in {""} \cup ReadErrs, m \in FirstMsgs :
         LET ret == handshakeErr(err, m)
             ev == IF err # ""
                   THEN [NoEvent EXCEPT !.step = "version", !.readErr = err,
                                        !.err = ret]
                   ELSE [NoEvent EXCEPT !.step = "version", !.type = m.type,
                                        !.req = m.tag, !.mversion = m.version,
                                        !.err = ret]
         IN  /\ serve' = [pc |-> IF ret = "" THEN "loop" ELSE "returned",
                          err |-> ret]
             /\ closes' = IF ret = "" THEN closes ELSE closes + 1
             /\ last' = IF err = "" /\ m.type = "Tversion"
                        THEN [ev EXCEPT !.reply = "Rversion", !.tag = m.tag,
                                        !.version = Rversion(m.version)]
                        ELSE ev
    /\ UNCHANGED <<fids, recs, vals, tasks, nmsgs, panicked, conn, backend>>

\* plan9.WriteFcall(srv.conn, m) returns in goroutine w: its reply is on
\* the connection.
WriteDone(w) ==
    /\ ~panicked
    /\ w \in conn.writers
    /\ conn' = [conn EXCEPT !.writers = @ \ {w}]
    /\ UNCHANGED <<fids, recs, vals, tasks, nmsgs, panicked, closes, serve, last,
                   backend>>

\* The state when Serve starts, on a connection whose Write takes time
\* (stream) or none.
InitServer(stream) ==
    /\ fids = [f \in Fids |-> NoRec]
    /\ recs = [i \in Msgs |-> FreeRec]
    /\ vals = [v \in Vals |-> FreeVal]
    /\ tasks = [i \in Msgs |-> IdleTask]
    /\ nmsgs = 0
    /\ panicked = FALSE
    /\ closes = 0
    /\ serve = [pc |-> "version", err |-> ""]
    /\ conn = [stream |-> stream, writers |-> {}]
    /\ last = NoEvent

\* No back-end has been made or called.
NoParams == [Root |-> [dir |-> FALSE, entries |-> <<>>, content |-> 0],
             Open |-> FALSE]
NotBuilt == [built |-> FALSE, err |-> "", root |-> <<>>]
NoRes == [op |-> "none", err |-> "", n |-> 0, written |-> 0, panic |-> FALSE,
          len |-> 0, index |-> 0, off |-> 0, data |-> <<>>, att |-> 0,
          children |-> 0, content |-> 0, name |-> <<>>, attached |-> <<>>,
          fid |-> 0]
\* The zero Context of a static Fid, a nil File, and a slot without a Fid;
\* att is the Attach call a Fid goes back to.
ZeroContext == [aname |-> 0, other |-> 0]
NoFile == [kind |-> "nil", b |-> 0, s |-> <<>>]
NoSFid == [used |-> FALSE, entry |-> <<>>, file |-> NoFile,
           context |-> ZeroContext, att |-> 0]
IdleBackend ==
    /\ params = NoParams
    /\ static = NotBuilt
    /\ bufs = <<>>
    /\ sfids = <<>>
    /\ depth = 0
    /\ cfids = <<>>
    /\ res = NoRes

InitOn(stream) == InitServer(stream) /\ IdleBackend

Init == InitOn(FALSE)

Next ==
    \/ Handshake
    \/ ReadTattach
    \/ ReadTstat
    \/ ReadTwalk
    \/ ReadTopen
    \/ ReadTread
    \/ ReadTwrite
    \/ ReadTclunk
    \/ ReadTremove
    \/ \E i \in Msgs : AttachTask(i)
    \/ \E i \in Msgs : StatCall(i)
    \/ \E i \in Msgs : StatReturn(i)
    \/ \E i \in Msgs : WalkClone(i)
    \/ \E i \in Msgs : WalkReturn(i)
    \/ \E i \in Msgs : OpenCall(i)
    \/ \E i \in Msgs : OpenReturn(i)
    \/ \E i \in Msgs : ReadCall(i)
    \/ \E i \in Msgs : ReadReturn(i)
    \/ \E i \in Msgs : readDir(i)
    \/ \E i \in Msgs : readDirReturn(i)
    \/ \E i \in Msgs : WriteCall(i)
    \/ \E i \in Msgs : WriteReturn(i)
    \/ \E i \in Msgs : ClunkDel(i)
    \/ \E i \in Msgs : ClunkReply(i)
    \/ \E i \in Msgs : DelNewFid(i)
    \/ ServeReturn

Spec == Init /\ [][Next]_vars

\* The server on a connection whose Write takes time.
WireNext ==
    \/ Next
    \/ \E w \in {ServeLoop} \cup Msgs : WriteDone(w)

SpecWire == InitOn(TRUE) /\ [][WireNext]_vars

\* The steps of the goroutine of request i.
Handler(i) ==
    \/ AttachTask(i)
    \/ StatCall(i)
    \/ StatReturn(i)
    \/ WalkClone(i)
    \/ WalkReturn(i)
    \/ OpenCall(i)
    \/ OpenReturn(i)
    \/ ReadCall(i)
    \/ ReadReturn(i)
    \/ readDir(i)
    \/ readDirReturn(i)
    \/ WriteCall(i)
    \/ WriteReturn(i)
    \/ ClunkDel(i)
    \/ ClunkReply(i)
    \/ DelNewFid(i)

\* Fair scheduling: a goroutine that can take a step takes one, and every
\* back-end call returns.
FairSpec == Spec /\ \A i \in Msgs : WF_vars(Handler(i))

\* The server with a client that keeps to fid 1.
DirNext ==
    \/ Handshake
    \/ DirTattach
    \/ DirTwalk
    \/ DirTopen
    \/ DirTread
    \/ DirTwrite
    \/ DirTclunk
    \/ \E i \in Msgs : AttachTask(i)
    \/ \E i \in Msgs : WalkClone(i)
    \/ \E i \in Msgs : WalkReturn(i)
    \/ \E i \in Msgs : OpenCall(i)
    \/ \E i \in Msgs : OpenReturn(i)
    \/ \E i \in Msgs : ReadCall(i)
    \/ \E i \in Msgs : ReadReturn(i)
    \/ \E i \in Msgs : readDir(i)
    \/ \E i \in Msgs : readDirReturn(i)
    \/ \E i \in Msgs : WriteCall(i)
    \/ \E i \in Msgs : WriteReturn(i)
    \/ \E i \in Msgs : ClunkDel(i)
    \/ \E i \in Msgs : ClunkReply(i)
    \/ \E i \in Msgs : DelNewFid(i)
    \/ ServeReturn

SpecDir == Init /\ [][DirNext]_vars

\* ================================================ the static back-end: New
\* An Entry is a record: dir says that its Entries map is not nil, entries
\* is that map, from names to Entry. Names are numbers, in the order of the
\* strings they stand for.
Slash == 0        \* a name that contains "/"
Dot == -1         \* ".", the name New gives the root
EntryNames == {Slash, 1, 2}
File == [dir |-> FALSE, entries |-> <<>>, content |-> 0]

\* The entries of height at most d.
RECURSIVE EntriesTo(_)
EntriesTo(d) ==
    {File} \cup
    {[dir |-> TRUE, entries |-> m, content |-> 0] :
        m \in IF d = 0 THEN {<<>>}
              ELSE UNION {[D -> EntriesTo(d - 1)] : D \in SUBSET EntryNames}}

\* The Params handed to New: Root (a nil map makes the root a plain file)
\* and whether Open is given.
ParamsSet == [Root : EntriesTo(TreeDepth), Open : BOOLEAN]

validName(name) == name # Slash

RECURSIVE sortDescending(_)
sortDescending(S) ==
    IF S = {} THEN <<>>
    ELSE LET m == CHOOSE x \in S : \A y \in S : x >= y
         IN  <<m>> \o sortDescending(S \ {m})

\* sort.Strings on the names of a map.
RECURSIVE sortStrings(_)
sortStrings(S) ==
    IF S = {} THEN <<>>
    ELSE LET m == CHOOSE x \in S : \A y \in S : x <= y
         IN  <<m>> \o sortStrings(S \ {m})

\* calcQids: the processed entry of f under the name fname, with Qid paths
\* from qpath on, and the next free path (max). calcEntries is its loop over
\* the sorted names, from the i-th on.
RECURSIVE calcQids(_, _, _)
RECURSIVE calcEntries(_, _, _, _, _)
calcEntries(f, names, i, acc, qpath) ==
    IF i > Len(names) THEN [entries |-> acc, max |-> qpath, err |-> ""]
    ELSE LET r == calcQids(names[i], f.entries[names[i]], qpath)
         IN  IF r.err # "" THEN [entries |-> <<>>, max |-> 0, err |-> r.err]
             ELSE calcEntries(f, names, i + 1, Append(acc, r.e), r.max)

calcQids(fname, f, qpath) ==
    LET qf == [qid |-> [path |-> qpath, type |-> IF f.dir THEN QTDIR ELSE 0],
               name |-> fname, content |-> f.content, dir |-> FALSE,
               entries |-> <<>>]
    IN  IF ~validName(fname)
        THEN [e |-> <<>>, max |-> 0, err |-> "file name isn't valid"]
        ELSE IF ~f.dir THEN [e |-> qf, max |-> qpath + 1, err |-> ""]
        ELSE LET r == calcEntries(f, sortStrings(DOMAIN f.entries), 1, <<>>,
                                  qpath + 1)
             IN  IF r.err # "" THEN [e |-> <<>>, max |-> 0, err |-> r.err]
                 ELSE [e |-> [qf EXCEPT !.dir = TRUE, !.entries = r.entries],
                       max |-> r.max, err |-> ""]

\* staticfsys.New(p).
NewFsys(p) ==
    IF ~p.Open THEN [NotBuilt EXCEPT !.err = "no Open parameter provided"]
    ELSE LET r == calcQids(Dot, p.Root, 1)
         IN  IF r.err # "" THEN [NotBuilt EXCEPT !.err = "bad file tree"]
             ELSE [built |-> TRUE, err |-> "", root |-> r.e]

New ==
    /\ ~static.built /\ static.err = ""
    /\ static' = NewFsys(params)
    /\ res' = [NoRes EXCEPT !.op = "New", !.err = static'.err]
    /\ UNCHANGED <<server, params, bufs, sfids, depth, cfids>>

InitNew ==
    /\ InitServer(FALSE)
    /\ params \in ParamsSet
    /\ static = NotBuilt
    /\ bufs = <<>>
    /\ sfids = <<>>
    /\ depth = 0
    /\ cfids = <<>>
    /\ res = NoRes

SpecNew == InitNew /\ [][New]_vars

\* ================================================ the buffer file (bufFile)
\* int64 and int are IntBits wide here: sums wrap around as they do in Go.
MinInt == -(2 ^ (IntBits - 1))
MaxInt == 2 ^ (IntBits - 1) - 1
Wrap(x) == ((x - MinInt) % (2 ^ IntBits)) + MinInt

\* The bytes a client writes, and the data of one write.
Bytes == {1, 2}
Datas == UNION {[1..n -> Bytes] : n \in 0..MaxData}

\* NewBuffer(maxSize).
NewBuffer(maxSize) == [maxSize |-> maxSize, buf |-> <<>>]

copyAtStart(dst, start, src) ==
    [j \in 1..Len(dst) |-> IF j <= Len(src) THEN src[j] ELSE dst[j]]

\* copy(dst[start:], src) on a dst that is long enough.
copyAt(dst, start, src) ==
    [j \in 1..Len(dst) |->
        IF j > start /\ j <= start + Len(src) THEN src[j - start] ELSE dst[j]]

\* bufFile.WriteAt(data, off): the file after it, the count and the error
\* it returns; panic when the slice expression f.buf[start:] is out of
\* range.
bufWriteAt(f, data, off) ==
    LET fail(err) == [f |-> f, n |-> 0, err |-> err, panic |-> FALSE]
        start == off
        end == Wrap(start + Len(data))
        grown == IF end > Len(f.buf)
                 THEN f.buf \o [j \in 1..(end - Len(f.buf)) |-> 0]
                 ELSE f.buf
    IN  IF off < 0 THEN fail("negative file offset")
        ELSE IF Wrap(off + Len(data)) > f.maxSize
        THEN fail("max file size exceeded")
        ELSE IF start > Len(grown)
        THEN [f |-> [f EXCEPT !.buf = grown], n |-> 0, err |-> "",
              panic |-> TRUE]
        ELSE [f |-> [f EXCEPT !.buf = copyAt(grown, start, data)],
              n |-> Len(data), err |-> "", panic |-> FALSE]

\* bufFile.ReadAt(buf, off) with len(buf) = len: the bytes it stores in buf
\* and the error it returns.
bufReadAt(f, len, off) ==
    IF off >= Len(f.buf) THEN [data |-> <<>>, err |-> "EOF"]
    ELSE IF off < 0 THEN [data |-> <<>>, err |-> "negative file offset"]
    ELSE [data |-> SubSeq(f.buf, off + 1, min(Len(f.buf), off + len)),
          err |-> ""]

\* A call of WriteAt on buffer b.
BufWriteAt(b) ==
    /\ ~res.panic
    /\ \E data \in Datas, off \in -1..MaxInt :
         LET r == bufWriteAt(bufs[b], data, off)
         IN  /\ bufs' = [bufs EXCEPT ![b] = r.f]
             /\ res' = [NoRes EXCEPT !.op = "WriteAt", !.off = off,
                                     !.data = data, !.len = Len(data),
                                     !.n = r.n, !.err = r.err,
                                     !.panic = r.panic]
    /\ UNCHANGED <<server, params, static, sfids, depth, cfids>>

\* A call of ReadAt on buffer b.
BufReadAt(b) ==
    /\ ~res.panic
    /\ \E len \in 0..(MaxSize + 1), off \in -1..MaxInt :
         LET r == bufReadAt(bufs[b], len, off)
         IN  res' = [NoRes EXCEPT !.op = "ReadAt", !.off = off, !.len = len,
                                 !.data = r.data, !.n = Len(r.data),
                                 !.err = r.err]
    /\ UNCHANGED <<server, params, static, bufs, sfids, depth, cfids>>

InitBuf ==
    /\ InitServer(FALSE)
    /\ params = NoParams
    /\ static = NotBuilt
    /\ sfids = <<>>
    /\ depth = 0
    /\ cfids = <<>>
    /\ bufs = <<NewBuffer(MaxSize)>>
    /\ res = NoRes

BufNext ==
    \/ BufWriteAt(1)
    \/ BufReadAt(1)

SpecBuf == InitBuf /\ [][BufNext]_vars

\* =============================================== the static back-end: fids
\* The back-end of TestServerReadWithThreadedData: foo and info/{other,
\* version}, a buffer per attach behind "other", strings behind the rest;
\* and a back-end whose root has one entry more than the runtime's buffer.
TestRoot ==
    [dir |-> TRUE, content |-> 0,
     entries |-> <<File,
                   [dir |-> TRUE, content |-> 0,
                    entries |-> <<[File EXCEPT !.content = entryInfoOther],
                                  File>>]>>]
WideRoot ==
    [dir |-> TRUE, content |-> 0, entries |-> [n \in 1..(DirEntryBuf + 1) |-> File]]

SFids == 1..NSFids
Anames == {1, 2}
\* The names a client walks to, and the offsets and lengths of its
\* directory reads.
WalkNames == {1, 2, 3}
DirLens == {2, DirEntryBuf}
DirIndexes == {0, 1, 2, DirEntryBuf, DirEntryBuf + 1, DirEntryBuf + 2}

\* Params.ContextForAttach of the test: a new buffer for each attach (the
\* k-th buffer for the k-th attach).
contextForAttach(aname, k) == [aname |-> aname, other |-> k]

\* Params.Open of the test: the context's buffer for "other", a read-only
\* string made of the aname and the content for the rest.
paramsOpen(f) ==
    IF f.entry.content = entryInfoOther
    THEN [kind |-> "buf", b |-> f.context.other, s |-> <<>>]
    ELSE [kind |-> "string", b |-> 0,
          s |-> <<f.context.aname, f.entry.content>>]

staticCloneShared(f) == [f EXCEPT !.context = contextForAttach(1, 1)]

\* fsys.Clone: ref(*f).
staticClone(f) == f

\* fsys.Walk: the entry of f.entry with that name, if any.
staticWalk(f, name) ==
    LET es == f.entry.entries
        hits == {i \in 1..Len(es) : es[i].name = name}
    IN  IF hits = {} THEN [f |-> f, err |-> "file not found"]
        ELSE [f |-> [f EXCEPT !.entry = es[CHOOSE i \in hits : TRUE]],
              err |-> ""]

\* fsys.Readdir into a dir of dirLen elements: the elements written and
\* the count returned; panic when dir[i] is out of range.
staticReaddir(f, dirLen, index) ==
    LET n == Len(f.entry.entries)
        idx == IF index >= n THEN n ELSE index
    IN  IF n - idx > dirLen
        THEN [written |-> dirLen, n |-> 0, panic |-> TRUE]
        ELSE [written |-> n - idx, n |-> n - idx, panic |-> FALSE]

StaticAttach(i) ==
    /\ ~res.panic /\ ~sfids[i].used
    /\ Len(bufs) < MaxAttach
    /\ \E aname \in Anames :
         LET k == Len(bufs) + 1
         IN  /\ bufs' = Append(bufs, NewBuffer(MaxSize))
             /\ sfids' = [sfids EXCEPT ![i] =
                             [used |-> TRUE, entry |-> static.root,
                              file |-> NoFile,
                              context |-> contextForAttach(aname, k),
                              att |-> k]]
             /\ res' = [NoRes EXCEPT !.op = "Attach", !.att = k]
    /\ UNCHANGED <<server, params, static, depth, cfids>>

StaticClone(i, j) ==
    /\ ~res.panic /\ sfids[i].used /\ ~sfids[j].used
    /\ sfids' = [sfids EXCEPT ![j] = staticClone(sfids[i])]
    /\ res' = [NoRes EXCEPT !.op = "Clone", !.att = sfids[i].att]
    /\ UNCHANGED <<server, params, static, bufs, depth, cfids>>

StaticWalk(i) ==
    /\ ~res.panic /\ sfids[i].used
    /\ \E name \in WalkNames :
         LET r == staticWalk(sfids[i], name)
         IN  /\ sfids' = [sfids EXCEPT ![i] = r.f]
             /\ res' = [NoRes EXCEPT !.op = "Walk", !.err = r.err,
                                     !.att = sfids[i].att]
    /\ UNCHANGED <<server, params, static, bufs, depth, cfids>>

\* fsys.Open: a directory needs no File.
StaticOpen(i) ==
    /\ ~res.panic /\ sfids[i].used /\ sfids[i].file = NoFile
    /\ sfids' = IF sfids[i].entry.dir THEN sfids
                ELSE [sfids EXCEPT ![i].file = paramsOpen(sfids[i])]
    /\ res' = [NoRes EXCEPT !.op = "Open", !.att = sfids[i].att]
    /\ UNCHANGED <<server, params, static, bufs, depth, cfids>>

\* fsys.ReadAt on an open file: f.file.ReadAt.
StaticReadAt(i) ==
    /\ ~res.panic /\ sfids[i].used /\ sfids[i].file # NoFile
    /\ LET f == sfids[i].file
           r == bufReadAt(IF f.kind = "buf" THEN bufs[f.b]
                          ELSE [maxSize |-> 0, buf |-> f.s], MaxSize, 0)
       IN  res' = [NoRes EXCEPT !.op = "ReadAt", !.len = MaxSize,
                               !.data = r.data, !.n = Len(r.data),
                               !.err = r.err, !.att = sfids[i].att,
                               !.content = sfids[i].entry.content]
    /\ UNCHANGED <<server, params, static, bufs, sfids, depth, cfids>>

\* fsys.WriteAt on an open file: f.file.WriteAt, which ErrorWriter refuses
\* for a string.
StaticWriteAt(i) ==
    /\ ~res.panic /\ sfids[i].used /\ sfids[i].file # NoFile
    /\ \E b \in Bytes :
         LET f == sfids[i].file
             r == IF f.kind = "buf" THEN bufWriteAt(bufs[f.b], <<b>>, 0)
                  ELSE [f |-> <<>>, n |-> 0, err |-> "read-only file",
                        panic |-> FALSE]
         IN  /\ bufs' = IF f.kind = "buf" THEN [bufs EXCEPT ![f.b] = r.f]
                        ELSE bufs
             /\ res' = [NoRes EXCEPT !.op = "WriteAt", !.data = <<b>>,
                                     !.n = r.n, !.err = r.err,
                                     !.panic = r.panic, !.att = sfids[i].att,
                                     !.content = sfids[i].entry.content]
    /\ UNCHANGED <<server, params, static, sfids, depth, cfids>>

\* fsys.Clunk closes and drops the File; the Fid is not used again.
StaticClunk(i) ==
    /\ ~res.panic /\ sfids[i].used
    /\ sfids' = [sfids EXCEPT ![i] = NoSFid]
    /\ res' = [NoRes EXCEPT !.op = "Clunk", !.att = sfids[i].att]
    /\ UNCHANGED <<server, params, static, bufs, depth, cfids>>

StaticReaddir(i) ==
    /\ ~res.panic /\ sfids[i].used
    /\ \E dirLen \in DirLens, index \in DirIndexes :
         LET r == staticReaddir(sfids[i], dirLen, index)
         IN  res' = [NoRes EXCEPT !.op = "Readdir", !.len = dirLen,
                                 !.index = index, !.n = r.n,
                                 !.written = r.written, !.panic = r.panic,
                                 !.children = Len(sfids[i].entry.entries),
                                 !.att = sfids[i].att]
    /\ UNCHANGED <<server, params, static, bufs, sfids, depth, cfids>>

InitStatic ==
    /\ InitServer(FALSE)
    /\ params \in [Root : {TestRoot, WideRoot}, Open : {TRUE}]
    /\ static = NewFsys(params)
    /\ bufs = <<>>
    /\ sfids = [i \in SFids |-> NoSFid]
    /\ depth = 0
    /\ cfids = <<>>
    /\ res = NoRes

StaticNext ==
    \/ \E i \in SFids : StaticAttach(i)
    \/ \E i \in SFids, j \in SFids : StaticClone(i, j)
    \/ \E i \in SFids : StaticWalk(i)
    \/ \E i \in SFids : StaticOpen(i)
    \/ \E i \in SFids : StaticReadAt(i)
    \/ \E i \in SFids : StaticWriteAt(i)
    \/ \E i \in SFids : StaticClunk(i)
    \/ \E i \in SFids : StaticReaddir(i)

SpecStatic == InitStatic /\ [][StaticNext]_vars

\* ===================================================== the clone wrapper
\* Names are sequences of characters here. The wrappers are numbered from
\* the outermost (level 1) to the innermost (level depth); the level below
\* is the static back-end of the clone tests, whose files are strings made
\* of the context and the content.
Digits == <<"0", "1", "2", "3", "4", "5", "6", "7", "8", "9">>
DotDot == <<".", ".">>
Foo == <<"f", "o", "o">>
Info == <<"i", "n", "f", "o">>
Version == <<"v", "e", "r", "s", "i", "o", "n">>
CloneNames ==
    {<<"0">>, <<"1">>, <<"2">>, <<"3">>, <<"0", "1">>, <<"+", "1">>,
     <<"-", "1">>, <<"-", "0">>, <<"1", " ">>, <<>>, DotDot, Foo, Info,
     Version}

isDigit(ch) == \E d \in 1..10 : Digits[d] = ch
digitVal(ch) == (CHOOSE d \in 1..10 : Digits[d] = ch) - 1

RECURSIVE digitsVal(_, _)
digitsVal(ds, acc) ==
    IF ds = <<>> THEN acc
    ELSE digitsVal(Tail(ds), 10 * acc + digitVal(Head(ds)))

\* strconv.Atoi: an optional sign and one decimal digit or more.
Atoi(name) ==
    LET signed == name # <<>> /\ Head(name) \in {"+", "-"}
        ds == IF signed THEN Tail(name) ELSE name
    IN  IF ds = <<>> \/ \E k \in 1..Len(ds) : ~isDigit(ds[k])
        THEN [err |-> TRUE, id |-> 0]
        ELSE [err |-> FALSE,
              id |-> IF Head(name) = "-" THEN -digitsVal(ds, 0)
                     ELSE digitsVal(ds, 0)]

\* fmt.Sprint of an int.
RECURSIVE decimal(_)
decimal(n) ==
    IF n < 10 THEN <<Digits[n + 1]>>
    ELSE decimal(n \div 10) \o <<Digits[(n % 10) + 1]>>

Sprint(id) == IF id < 0 THEN <<"-">> \o decimal(-id) ELSE decimal(id)

\* The providers of TestCloneNested: the wrapper at a level serves
\* providerLen(level) clones, and Get(id) extends the context of the
\* wrapper's root with the id.
providerLen(level) == IF level = 1 THEN 3 ELSE 2

providerGetOuterLast(level, c, id) ==
    IF id < 0 \/ id >= providerLen(level) THEN [c |-> <<>>, ok |-> FALSE]
    ELSE [c |-> <<id>> \o c, ok |-> TRUE]

providerGet(level, c, id) ==
    IF id < 0 \/ id >= providerLen(level) THEN [c |-> <<>>, ok |-> FALSE]
    ELSE [c |-> Append(c, id), ok |-> TRUE]

\* The processed tree of the static back-end under the wrappers: foo and
\* info/version.
CloneTree ==
    LET file(path, name, content) ==
            [qid |-> [path |-> path, type |-> 0], name |-> name,
             content |-> content, dir |-> FALSE, entries |-> <<>>]
        directory(path, name, entries) ==
            [qid |-> [path |-> path, type |-> QTDIR], name |-> name,
             content |-> 0, dir |-> TRUE, entries |-> entries]
    IN  directory(1, <<".">>,
                  <<file(2, Foo, 0),
                    directory(3, Info, <<file(4, Version, 1)>>)>>)

\* A wrapper Fid without an inner fid, and a slot without a Fid; walked is
\* the names a Fid has been walked along from the root.
NoInner == <<>>
NoCFid == [used |-> FALSE, f |-> NoInner, walked |-> <<>>]

\* AttachInner of the back-end at a level, below d wrappers.
fsAttachInner(d, level, c) ==
    IF level > d
    THEN [used |-> TRUE, entry |-> static.root, file |-> NoFile,
          context |-> c, att |-> 0]
    ELSE [kind |-> cloneRoot, c |-> c, id |-> 0, fid |-> NoInner]

\* Walk of the back-end at a level: the Fid it returns, its error, whether
\* it panics, and the AttachInner calls it made.
RECURSIVE fsWalk(_, _, _, _)
fsWalk(d, level, f, name) ==
    LET fail(err) == [f |-> f, err |-> err, panic |-> FALSE,
                      attached |-> <<>>]
    IN  IF level > d
        THEN LET r == staticWalk(f, name)
             IN  [f |-> r.f, err |-> r.err, panic |-> FALSE,
                  attached |-> <<>>]
        ELSE IF name = DotDot
        THEN [f |-> f, err |-> "", panic |-> TRUE, attached |-> <<>>]
        ELSE IF f.kind = cloneRoot
        THEN LET a == Atoi(name)
                 g == providerGet(level, f.c, a.id)
             IN  IF a.err \/ Sprint(a.id) # name THEN fail("file not found")
                 ELSE IF ~g.ok THEN fail("file not found")
                 ELSE [f |-> [kind |-> cloneDir, c |-> f.c, id |-> a.id,
                              fid |-> fsAttachInner(d, level + 1, g.c)],
                       err |-> "", panic |-> FALSE,
                       attached |-> <<[level |-> level + 1, c |-> g.c]>>]
        ELSE LET r == fsWalk(d, level + 1, f.fid, name)
             IN  IF r.panic \/ r.err # "" THEN [r EXCEPT !.f = f]
                 ELSE [r EXCEPT !.f = [f EXCEPT !.fid = r.f,
                                                !.kind = cloneRest]]

\* Params.Open of the clone tests: a string with the ids of the context
\* and the content of the entry.
cloneTestOpen(f) ==
    [kind |-> "string", b |-> 0, s |-> Append(f.context, f.entry.content)]

\* Open of the back-end at a level.
RECURSIVE fsOpen(_, _, _)
fsOpen(d, level, f) ==
    IF level > d
    THEN IF f.entry.dir THEN f ELSE [f EXCEPT !.file = cloneTestOpen(f)]
    ELSE IF f.kind = cloneRoot THEN f
    ELSE [f EXCEPT !.fid = fsOpen(d, level + 1, f.fid)]

\* The static Fid a wrapper Fid ends in, if it has been walked that far.
RECURSIVE innermost(_, _, _)
innermost(d, level, f) ==
    IF level > d THEN f
    ELSE IF f.kind = cloneRoot THEN NoSFid
    ELSE innermost(d, level + 1, f.fid)

\* ReadAt of the back-end at a level: every wrapper hands it to its inner
\* fid, the static back-end to the file.
fsReadAt(d, f, len, off) ==
    bufReadAt([maxSize |-> 0, buf |-> innermost(d, 1, f).file.s], len, off)

\* bits.Len(uint(cloneMax)): the low bits of Qid.Path a wrapper reserves.
qidBits ==
    LET RECURSIVE Len2(_)
        Len2(x) == IF x = 0 THEN 0 ELSE 1 + Len2(x \div 2)
    IN  Len2(cloneMax)

\* Fid.Qid of the back-end at a level, below d wrappers: the static
\* back-end answers the Qid of the entry, a wrapper shifts the Path of the
\* inner Qid and ors its kind in, in the width of Qid.Path.
RECURSIVE QidKindless(_, _, _)
QidKindless(d, level, f) ==
    IF level > d THEN f.entry.qid
    ELSE IF f.kind = cloneRoot THEN [path |-> cloneRoot, type |-> QTDIR]
    ELSE LET q == QidKindless(d, level + 1, f.fid)
         IN  [q EXCEPT !.path = (q.path * 2 ^ qidBits) % 2 ^ PathBits]

RECURSIVE Qid(_, _, _)
Qid(d, level, f) ==
    IF level > d THEN f.entry.qid
    ELSE IF f.kind = cloneRoot THEN [path |-> cloneRoot, type |-> QTDIR]
    ELSE LET q == Qid(d, level + 1, f.fid)
         IN  [q EXCEPT !.path =
                 ((q.path * 2 ^ qidBits) % 2 ^ PathBits) + f.kind]

\* Readdir of the back-end at a level into a dir of dirLen elements. At the
\* root of a wrapper the loop runs over the ids from index upward, stops
\* when dir is full, skips the ids Get refuses, and calls fs.entry(e) for
\* the first id that is left, which panics.
RECURSIVE fsReaddir(_, _, _, _, _)
fsReaddir(d, level, f, dirLen, index) ==
    IF level > d THEN staticReaddir(f, dirLen, index)
    ELSE IF f.kind = cloneRoot
    THEN LET ids == {e \in index..(providerLen(level) - 1) :
                        providerGet(level, f.c, e).ok}
         IN  IF dirLen > 0 /\ ids # {}
             THEN [written |-> 0, n |-> 0, panic |-> TRUE]
             ELSE [written |-> 0, n |-> 0, panic |-> FALSE]
    ELSE fsReaddir(d, level + 1, f.fid, dirLen, index)

CFids == 1..NCFids
CloneDirLens == {0, DirEntryBuf}
CloneDirIndexes == {0, 3}

CloneAttach(i) ==
    /\ ~res.panic /\ ~cfids[i].used
    /\ cfids' = [cfids EXCEPT ![i] =
                    [used |-> TRUE, walked |-> <<>>,
                     f |-> [kind |-> cloneRoot, c |-> <<>>, id |-> 0,
                            fid |-> NoInner]]]
    /\ res' = [NoRes EXCEPT !.op = "Attach"]
    /\ UNCHANGED <<server, params, static, bufs, sfids, depth>>

\* Walk on the Fid of slot i; the Fid it returns takes the slot.
CloneWalk(i) ==
    /\ ~res.panic /\ cfids[i].used
    /\ \E name \in CloneNames :
         LET r == fsWalk(depth, 1, cfids[i].f, name)
         IN  /\ cfids' = IF r.panic \/ r.err # "" THEN cfids
                         ELSE [cfids EXCEPT ![i].f = r.f,
                                            ![i].walked = Append(@, name)]
             /\ res' = [NoRes EXCEPT !.op = "Walk", !.name = name, !.fid = i,
                                     !.err = r.err, !.panic = r.panic,
                                     !.attached = r.attached]
    /\ UNCHANGED <<server, params, static, bufs, sfids, depth>>

CloneOpen(i) ==
    /\ ~res.panic /\ cfids[i].used
    /\ innermost(depth, 1, cfids[i].f).file = NoFile
    /\ cfids' = [cfids EXCEPT ![i].f = fsOpen(depth, 1, @)]
    /\ res' = [NoRes EXCEPT !.op = "Open"]
    /\ UNCHANGED <<server, params, static, bufs, sfids, depth>>

CloneReadAt(i) ==
    /\ ~res.panic /\ cfids[i].used
    /\ innermost(depth, 1, cfids[i].f).file # NoFile
    /\ \E off \in {0, 1} :
         LET r == fsReadAt(depth, cfids[i].f, MaxSize, off)
         IN  res' = [NoRes EXCEPT !.op = "ReadAt", !.off = off, !.fid = i,
                                 !.len = MaxSize, !.data = r.data,
                                 !.n = Len(r.data), !.err = r.err]
    /\ UNCHANGED <<server, params, static, bufs, sfids, depth, cfids>>

CloneReaddir(i) ==
    /\ ~res.panic /\ cfids[i].used
    /\ \E dirLen \in CloneDirLens, index \in CloneDirIndexes :
         LET r == fsReaddir(depth, 1, cfids[i].f, dirLen, index)
         IN  res' = [NoRes EXCEPT !.op = "Readdir", !.fid = i,
                                 !.len = dirLen, !.index = index,
                                 !.n = r.n, !.written = r.written,
                                 !.panic = r.panic]
    /\ UNCHANGED <<server, params, static, bufs, sfids, depth, cfids>>

CloneClunk(i) ==
    /\ ~res.panic /\ cfids[i].used
    /\ cfids' = [cfids EXCEPT ![i] = NoCFid]
    /\ res' = [NoRes EXCEPT !.op = "Clunk"]
    /\ UNCHANGED <<server, params, static, bufs, sfids, depth>>

InitClone ==
    /\ InitServer(FALSE)
    /\ params = NoParams
    /\ static = [built |-> TRUE, err |-> "", root |-> CloneTree]
    /\ bufs = <<>>
    /\ sfids = <<>>
    /\ depth \in 1..MaxDepth
    /\ cfids = [i \in CFids |-> NoCFid]
    /\ res = NoRes

CloneNext ==
    \/ \E i \in CFids : CloneAttach(i)
    \/ \E i \in CFids : CloneWalk(i)
    \/ \E i \in CFids : CloneOpen(i)
    \/ \E i \in CFids : CloneReadAt(i)
    \/ \E i \in CFids : CloneReaddir(i)
    \/ \E i \in CFids : CloneClunk(i)

SpecClone == InitClone /\ [][CloneNext]_vars

\* Every Fid a back-end at a level below d wrappers can hand out, for every
\* Path the innermost back-end may use: a static Fid, the root of a
\* wrapper, or a wrapper Fid of kind dir or rest around an inner Fid.
RECURSIVE QidFids(_, _)
QidFids(d, level) ==
    IF level > d
    THEN {[used |-> TRUE, entry |-> [CloneTree EXCEPT !.qid.path = p],
           file |-> NoFile, context |-> <<>>, att |-> 0] :
            p \in 0..(2 ^ PathBits - 1)}
    ELSE {[kind |-> cloneRoot, c |-> <<>>, id |-> 0, fid |-> NoInner]}
         \cup {[kind |-> k, c |-> <<>>, id |-> 0, fid |-> g] :
                  k \in {cloneDir, cloneRest}, g \in QidFids(d, level + 1)}

\* Qid is asked of the Fid of slot 1 and of another Fid, which takes slot 2.
CloneQid ==
    /\ res.op = "none"
    /\ \E g \in QidFids(depth, 1) :
         /\ cfids' = [cfids EXCEPT ![2] =
                         [used |-> TRUE, f |-> g, walked |-> <<>>]]
         /\ res' = [NoRes EXCEPT !.op = "Qid",
                                 !.data = <<Qid(depth, 1, cfids[1].f).path,
                                            Qid(depth, 1, g).path>>]
    /\ UNCHANGED <<server, params, static, bufs, sfids, depth>>

InitQid ==
    /\ InitServer(FALSE)
    /\ params = NoParams
    /\ static = [built |-> TRUE, err |-> "", root |-> CloneTree]
    /\ bufs = <<>>
    /\ sfids = <<>>
    /\ depth \in 1..MaxDepth
    /\ \E f \in QidFids(depth, 1) :
         cfids = [i \in CFids |->
                    IF i = 1 THEN [used |-> TRUE, f |-> f, walked |-> <<>>]
                    ELSE NoCFid]
    /\ res = NoRes

SpecQid == InitQid /\ [][CloneQid]_vars

\* =================================================================== claims
InTable(r) == recs[r].id # NOFID /\ fids[recs[r].id] = r
Holds(i, r) == tasks[i].pc # "none" /\ (tasks[i].fid = r \/ tasks[i].newFid = r)
Held(r) == \E i \in Msgs : Holds(i, r)
Populated(r) == recs[r].id # NOFID /\ recs[r].val # NoVal

\* C1: the back-end Clunk is invoked at most once on the backing value of a
\* fid record, and exactly once by the time the record has left the fid
\* table and every request holding it has replied.
C1_ClunkExactlyOnce ==
    /\ \A v \in Vals : vals[v].clunks <= 1
    /\ \A r \in Msgs :
         (Populated(r) /\ ~InTable(r) /\ ~Held(r)) => vals[recs[r].val].clunks = 1

\* C2: no back-end operation is invoked on a back-end fid after Clunk has
\* been invoked on it, and Clunk is never invoked on a back-end fid while an
\* operation on it is still running.
C2_NoUseAfterClunk ==
    /\ \A v \in Vals : vals[v].running > 0 => vals[v].clunks = 0
    /\ last.step = "call" => ~last.stale

\* C3: a fid record in the fid table has refCount >= 1, and no fid record's
\* refCount is ever negative.
C3_RefCountSound ==
    \A r \in Msgs :
        /\ InTable(r) => recs[r].refCount >= 1
        /\ recs[r].refCount >= 0

\* The fid id a request introduces, from the event of the step that read it.
Intro(e) ==
    CASE e.type = "Tattach" -> e.fid
      [] e.type = "Twalk" -> IF e.newfid # e.fid THEN e.newfid ELSE NOFID
      [] OTHER -> NOFID

\* The step read a message (one iteration of Serve's loop).
ReadStep == nmsgs' = nmsgs + 1 /\ last'.step = "read"

\* C4: a Tattach, or a Twalk with Newfid # Fid, that introduces a fid id
\* already in the fid table is answered with Rerror, starts no handler and no
\* back-end call, and leaves the table, every record and every back-end
\* value as they were.
C4_DupFidRejected ==
    [][(ReadStep /\ Intro(last') # NOFID /\ fids[Intro(last')] # NoRec)
         => /\ last'.reply = "Rerror"
            /\ fids' = fids /\ recs' = recs /\ vals' = vals /\ tasks' = tasks]_vars

\* C4 witness: a Twalk to a new fid id was refused because the id is bound,
\* and the record bound to it is still there.
C4_Witness ==
    /\ last.step = "read" /\ last.type = "Twalk"
    /\ last.err = "fid already in use" /\ last.reply = "Rerror"
    /\ fids[last.newfid] # NoRec /\ recs[fids[last.newfid]].attached

\* A walk's goroutine has replied (or would reply, were the reply not held
\* back by the delFid of its new fid).
WalkDone(e) == e.type = "Twalk" /\ e.step \in {"ret", "deln"}

\* C5: after a Twalk with Newfid # Fid that walked only a proper, non-empty
\* prefix of its names (an Rwalk with fewer Qids than names), Newfid is not
\* in the fid table.
C5_PartialWalkDropsNewfid ==
    (/\ WalkDone(last) /\ last.reply = "Rwalk" /\ last.nrec # NoRec
     /\ Len(last.wqid) > 0 /\ Len(last.wqid) < last.n)
        => ~InTable(last.nrec)

\* C6: a Twalk of n names of which the back-end accepts the first k < n is
\* answered with exactly the k Qids reached, in order: an Rwalk when k >= 1,
\* an Rerror when k = 0.
C6_WalkQids ==
    (WalkDone(last) /\ last.reply # "none" /\ last.k < last.n)
        => /\ last.wqid = [j \in 1..last.k |-> last.q + j]
           /\ last.reply = IF last.k >= 1 THEN "Rwalk" ELSE "Rerror"

\* C6 witness: a two-name walk that stopped after its first name.
C6_Witness ==
    /\ WalkDone(last) /\ last.reply = "Rwalk"
    /\ last.n = 2 /\ last.k = 1 /\ Len(last.wqid) = 1

\* The step in which the srv.walk of a Twalk returned.
WalkReturned == last'.type = "Twalk" /\ last'.step = "ret" /\ last' # last

\* C7: a Twalk that fails at some name leaves the source fid, while it stays
\* in the fid table, on the same backing value, at the same Qid, and does
\* not clunk it.
C7_FailedWalkKeepsSource ==
    [][(WalkReturned /\ last'.k < last'.n /\ fids'[last'.fid] = last'.rec)
         => LET r == last'.rec
                v == recs[r].val
            IN  /\ recs'[r].val = v
                /\ v # NoVal => vals'[v] = vals[v]]_vars

\* C7 witness: an in-place Twalk (Newfid = Fid) failed and its source is in
\* the table, unclunked.
C7_Witness ==
    /\ last.type = "Twalk" /\ last.step = "ret" /\ last.nrec = NoRec
    /\ last.k < last.n /\ InTable(last.rec)
    /\ recs[last.rec].val # NoVal /\ vals[recs[last.rec].val].clunks = 0

\* C8: the back-end Clone and Walk are never invoked with an open fid as
\* source or target: no Twalk is in flight on an open record, and a Twalk
\* naming an open fid is answered with Rerror by the reader loop.
C8_OpenNeverWalked ==
    /\ \A i \in Msgs :
         (tasks[i].type = "Twalk" /\ tasks[i].pc \in {"spawned", "inop"})
            => /\ ~recs[tasks[i].fid].open
               /\ tasks[i].newFid # NoRec => ~recs[tasks[i].newFid].open
    /\ (/\ last.step = "read" /\ last.type = "Twalk"
        /\ fids[last.fid] # NoRec /\ recs[fids[last.fid]].open)
          => last.reply = "Rerror"

\* C8 witness: a Twalk naming an open fid was refused.
C8_Witness ==
    /\ last.step = "read" /\ last.type = "Twalk" /\ last.reply = "Rerror"
    /\ last.err = "cannot walk open fid"
    /\ fids[last.fid] # NoRec /\ recs[fids[last.fid]].open

\* A Tclunk naming a fid of the table has been answered.
ClunkAnswered ==
    last.type = "Tclunk" /\ last.found /\ last.reply # "none"

C10_RemoveDropsFid ==
    (last.type = "Tremove" /\ last.found /\ last.reply # "none")
        => /\ last.op = "Remove"
           /\ ~InTable(last.rec)
           /\ last.reply \in {"Rremove", "Rerror"}

\* A Tattach whose back-end Attach put a non-directory into the new fid.
AttachedFile(e) ==
    e.type = "Tattach" /\ e.op = "Attach" /\ e.val # NoVal /\ ~IsDirQid(e.q)

\* The goroutine of request i panicked in the delFid of its new fid.
PanickedInDelNew(i) ==
    /\ last.step = "panic" /\ last.req = tasks[i].tag
    /\ tasks[i].pc = "delnew"

\* C11: a Tattach is answered with Rattach only if the Qid of the fid the
\* back-end Attach produced is a directory; when it is not, the request is
\* answered with Rerror (its goroutine does not die in delFid), the new fid
\* id is out of the fid table when the reply goes out, and the back-end fid
\* is clunked at most once, exactly once when no request holds the record.
C11_AttachOnlyDir ==
    /\ (last.type = "Tattach" /\ last.reply = "Rattach")
          => /\ last.val # NoVal /\ IsDirQid(vals[last.val].qid)
             /\ recs[last.nrec].val = last.val
    /\ (AttachedFile(last) /\ last.step = "deln")
          => /\ last.reply = "Rerror"
             /\ vals[last.val].clunks <= 1
             /\ ~Held(last.nrec) => vals[last.val].clunks = 1
             /\ fids[last.fid] = NoRec
    /\ \A i \in Msgs : ~(PanickedInDelNew(i) /\ AttachedFile(tasks[i].ev))

\* Request i is inside a back-end operation documented as serialised
\* (Walk, Open, Readdir) on the back-end value v.
Serialised(i, v) ==
    /\ v # NoVal
    /\ \/ tasks[i].type = "Topen" /\ tasks[i].pc = "inop" /\ tasks[i].opval = v
       \/ tasks[i].type = "Tread" /\ tasks[i].pc = "indir" /\ tasks[i].opval = v
       \/ /\ tasks[i].type = "Twalk" /\ tasks[i].pc = "inop"
          /\ tasks[i].n > 0 /\ tasks[i].tmp = v

SerialOn(v) == {i \in Msgs : Serialised(i, v)}

\* Request i is inside readDir on record r, between Lock and Unlock of dirMu.
InReadDir(i, r) ==
    tasks[i].type = "Tread" /\ tasks[i].pc = "indir" /\ tasks[i].fid = r

\* C12: on one back-end fid at most one of the serialised operations runs
\* at a time, no Clunk of it is invoked while one of them runs, and at most
\* one request at a time is inside readDir on a record, holding its dirMu.
C12_SerialisedOps ==
    /\ [](\A v \in Vals : Cardinality(SerialOn(v)) <= 1)
    /\ [](\A r \in Msgs :
            /\ Cardinality({i \in Msgs : InReadDir(i, r)}) <= 1
            /\ (\E i \in Msgs : InReadDir(i, r)) => recs[r].dirMu)
    /\ [][\A v \in Vals :
            vals'[v].clunks > vals[v].clunks => SerialOn(v)' = {}]_vars

\* The R-message type that answers a T-message type.
RType(type) ==
    CASE type = "Tattach" -> "Rattach"
      [] type = "Tstat" -> "Rstat"
      [] type = "Twalk" -> "Rwalk"
      [] type = "Topen" -> "Ropen"
      [] type = "Tread" -> "Rread"
      [] type = "Twrite" -> "Rwrite"
      [] type = "Tclunk" -> "Rclunk"
      [] type = "Tremove" -> "Rremove"
      [] OTHER -> "none"

\* A step of the request loop sent an R-message (every step records the
\* reply it sent; the handshake's Rversion precedes the loop).
Sent == last'.reply # "none" /\ last'.step # "version"

\* C13: a step that sends an R-message answers a request that is being read
\* in that step or has a handler in flight, and leaves it with no handler;
\* a request without a handler never gets one again, so each request is
\* answered at most once. The reply carries the request's tag and is the
\* R-type matching the request or an Rerror.
C13_OneReply ==
    /\ [][Sent =>
            LET g == last'.req
            IN  /\ g \in Msgs
                /\ last'.tag = g
                /\ last'.reply \in {RType(last'.type), "Rerror"}
                /\ tasks'[g].pc = "none"
                /\ \/ nmsgs' = nmsgs + 1 /\ g = nmsgs'
                   \/ /\ nmsgs' = nmsgs /\ tasks[g].pc # "none"
                      /\ tasks[g].type = last'.type /\ tasks[g].tag = g]_vars
    /\ [][\A g \in Msgs :
            (g <= nmsgs /\ tasks[g].pc = "none") => tasks'[g].pc = "none"]_vars

\* C13 witness: the handler spawned for the third request, a Tread, failed
\* in the back-end, and the request was answered by an Rerror with its tag.
C13_Witness ==
    /\ last.step = "ret" /\ last.type = "Tread" /\ last.reply = "Rerror"
    /\ last.req = 3 /\ last.tag = last.req
    /\ tasks[last.req].pc = "none"

\* Request i has been dispatched and not answered.
InFlight(i) == tasks[i].pc # "none"

\* The reader loop can take the next message off the connection.
ReaderFree ==
    (~panicked /\ serve.pc = "loop" /\ nmsgs < MaxMsgs) => ENABLED ReadTclunk

\* C14: under fair scheduling every dispatched request is eventually
\* answered, and the reader loop is never kept from reading the next
\* message by a request in flight.
C14_EventuallyAnswered ==
    /\ \A i \in Msgs : InFlight(i) ~> ~InFlight(i)
    /\ []ReaderFree

\* C15: fs.Close is invoked at most once, and when Serve has just returned
\* (and Close has been invoked) every attached fid record still in the fid
\* table has had Clunk invoked exactly once on its backing fid.
C15_ReturnClunksAll ==
    /\ closes <= 1
    /\ (last.step = "eof" /\ closes = 1)
          => \A f \in Fids :
               (fids[f] # NoRec /\ recs[fids[f]].attached)
                  => vals[recs[fids[f]].val].clunks = 1

\* The step answered a Tread that went through readDir.
DirReplied ==
    /\ last'.type = "Tread" /\ last'.op = "Readdir" /\ last'.reply # "none"
    /\ InFlight(last'.req) /\ tasks'[last'.req].pc = "none"

\* The continuation state of a directory read in fid record f.
DirState(f) == <<f.dirOffset, f.dirIndex, f.dirEntries>>

\* C16: a directory Tread is answered with Rread only if its offset is 0 or
\* the record's dirOffset, and then dirOffset becomes the offset plus the
\* length of the Data returned; a Tread with another offset is answered with
\* Rerror and leaves dirOffset, dirIndex and dirEntries as they were; and
\* nothing else changes dirOffset, save the reset to 0 by a read at offset 0.
\* So dirOffset is the sum of the Data lengths since the last offset-0 read.
C16_DirOffset ==
    /\ [][DirReplied =>
            LET r == last'.rec
                legal == last'.offset = 0 \/ last'.offset = recs[r].dirOffset
            IN  /\ last'.reply = "Rread" => legal
                /\ last'.reply = "Rread" =>
                      recs'[r].dirOffset = last'.offset + Sum(last'.data)
                /\ ~legal => /\ last'.reply = "Rerror"
                             /\ DirState(recs'[r]) = DirState(recs[r])]_vars
    /\ [][\A r \in Msgs :
            recs'[r].dirOffset # recs[r].dirOffset =>
              /\ last'.type = "Tread" /\ last'.rec = r
              /\ \/ DirReplied /\ last'.reply = "Rread"
                 \/ last'.offset = 0 /\ recs'[r].dirOffset = 0]_vars

\* C16 witness: a directory read at a non-zero offset returned data and
\* dirOffset moved on by its length.
C16_Witness ==
    /\ last.type = "Tread" /\ last.op = "Readdir" /\ last.reply = "Rread"
    /\ last.offset > 0 /\ Sum(last.data) > 0
    /\ recs[last.rec].dirOffset = last.offset + Sum(last.data)

\* C17: the Data of every Rread, from a file or from a directory, is at
\* most min(Count, iounit) bytes long.
C17_ReadWithinLimit ==
    (last.type = "Tread" /\ last.reply = "Rread")
        => Sum(last.data) <= min(last.count, recs[last.rec].iounit)

\* A step of the goroutine of request i inside readDir.
ReadDirStep(i) ==
    /\ tasks[i].type = "Tread" /\ tasks[i].pc \in {"spawned", "indir"}
    /\ tasks'[i] # tasks[i]
    /\ last'.req = i /\ last'.op = "Readdir"

\* The index of the entry a directory read by request i starts with.
StartIndex(i) ==
    IF tasks[i].offset = 0 /\ tasks[i].buf = <<>> THEN 0
    ELSE recs[tasks[i].fid].dirIndex

\* Request i is a directory read at a legal offset that has appended
\* nothing yet and whose limit is below the size of the entry it starts
\* with.
SmallRead(i) ==
    /\ tasks[i].offset = 0 \/ tasks[i].offset = recs[tasks[i].fid].dirOffset
    /\ tasks[i].buf = <<>>
    /\ StartIndex(i) < Len(DirSizes)
    /\ DirSizes[StartIndex(i) + 1] > readLimit(Cur, tasks[i])

\* The entries of the directory from index on.
EntriesFrom(index) == SubSeq(DirSizes, index + 1, Len(DirSizes))

Handled(type) == last.step = "read" /\ last.type = type /\ last.locked

\* The access mode of an open mode: its low two bits.
Access(mode) == mode % 4

\* C19: a Topen of an unopened directory fid whose access mode is OWRITE,
\* ORDWR or OEXEC, whatever the upper flag bits, is answered by the reader
\* loop with the permission-denied Rerror; no handler is started (so the
\* back-end Open is not invoked) and the fid stays unopened.
C19_DirOpenDenied ==
    (/\ Handled("Topen") /\ isDir(Cur, last.rec) /\ ~recs[last.rec].open
     /\ Access(last.mode) \in {OWRITE, ORDWR, OEXEC})
        => /\ last.reply = "Rerror" /\ last.err = errPerm
           /\ ~InFlight(last.req)

\* C20: a Tread on a fid opened write-only, and a Twrite on a fid opened
\* OREAD or OEXEC, are answered by the reader loop with an Rerror whose
\* Ename is the permission-denied sentinel, and no handler is started (so
\* ReadAt/WriteAt is not invoked).
C20_SamePermError ==
    /\ (/\ Handled("Tread") /\ recs[last.rec].open
        /\ Access(recs[last.rec].openMode) = OWRITE)
          => /\ last.reply = "Rerror" /\ last.err = errPerm
             /\ ~InFlight(last.req)
    /\ (/\ Handled("Twrite") /\ recs[last.rec].open
        /\ Access(recs[last.rec].openMode) \in {OREAD, OEXEC})
          => /\ last.reply = "Rerror" /\ last.err = errPerm
             /\ ~InFlight(last.req)

\* The latest step was Serve's handshake on a Tversion that names a
\* version other than "9P2000".
UnknownVersion(e) ==
    e.step = "version" /\ e.type = "Tversion" /\ e.mversion # "9P2000"

\* No request has been read, dispatched or handed to the back-end.
NothingDispatched ==
    /\ nmsgs = 0
    /\ \A i \in Msgs : tasks[i].pc = "none"
    /\ \A v \in Vals : vals[v] = FreeVal

\* C21: a first Tversion that names another version than "9P2000" is
\* answered with one Rversion that carries its tag and the version
\* "unknown", Serve then returns an error and nothing more happens on the
\* connection; and no request is read or dispatched before a Tversion
\* naming "9P2000" has been answered with an Rversion.
C21_Handshake ==
    /\ [](UnknownVersion(last) =>
            /\ last.reply = "Rversion" /\ last.tag = last.req
            /\ last.version = "unknown"
            /\ serve.pc = "returned" /\ serve.err # ""
            /\ NothingDispatched)
    /\ [][~UnknownVersion(last)]_vars
    /\ [](serve.pc = "version" => NothingDispatched)
    /\ [][(serve.pc = "version" /\ serve'.pc = "loop") =>
            /\ last'.type = "Tversion" /\ last'.mversion = "9P2000"
            /\ last'.reply = "Rversion" /\ last'.tag = last'.req
            /\ last'.version = "9P2000"]_vars

\* C21 witness: Serve has refused a Tversion that names "9P2000.u" and has
\* returned.
C21_Witness ==
    /\ UnknownVersion(last) /\ last.mversion = "9P2000.u"
    /\ last.reply = "Rversion" /\ serve.pc = "returned"

\* The latest step was a readMessage of Serve that failed.
ReadFailed == last.step \in {"version", "eof"} /\ last.readErr # ""

\* C22: when a read of Serve meets the end of the connection at a message
\* boundary, Serve returns nil, before the first message as well as later
\* and whatever fids are outstanding; when the read fails otherwise, Serve
\* returns that error.
C22_ReturnValue ==
    ReadFailed =>
        /\ serve.pc = "returned"
        /\ serve.err = (IF last.readErr = "EOF" THEN "" ELSE last.readErr)

\* The part of C22 that holds: the reads of the loop.
C22_LoopReturnValue ==
    (ReadFailed /\ last.step = "eof") =>
        /\ serve.pc = "returned"
        /\ serve.err = (IF last.readErr = "EOF" THEN "" ELSE last.readErr)

\* C23: at most one goroutine at a time is writing a reply to the
\* connection.
C23_WritesExclusive == Cardinality(conn.writers) <= 1

\* The entries of a tree handed to New, in depth-first pre-order with the
\* children of a directory by ascending name: their names, and whether
\* their Entries map is not nil.
RECURSIVE PreOrderIn(_, _)
RECURSIVE ChildrenIn(_, _)
ChildrenIn(f, S) ==
    IF S = {} THEN <<>>
    ELSE LET m == CHOOSE x \in S : \A y \in S : x <= y
         IN  PreOrderIn(m, f.entries[m]) \o ChildrenIn(f, S \ {m})

PreOrderIn(fname, f) ==
    <<[name |-> fname, dir |-> f.dir]>>
        \o (IF f.dir THEN ChildrenIn(f, DOMAIN f.entries) ELSE <<>>)

\* The entries of a processed tree in depth-first pre-order, as New laid
\* them out: their names and Qids.
RECURSIVE PreOrderOut(_)
RECURSIVE ChildrenOut(_, _)
ChildrenOut(entries, i) ==
    IF i > Len(entries) THEN <<>>
    ELSE PreOrderOut(entries[i]) \o ChildrenOut(entries, i + 1)

PreOrderOut(e) ==
    <<[name |-> e.name, path |-> e.qid.path, type |-> e.qid.type]>>
        \o ChildrenOut(e.entries, 1)

\* C24: in a tree New accepted, the k-th entry in depth-first pre-order over
\* name-sorted children has Qid path k (the root 1, a tree of n entries the
\* paths 1..n, all distinct), and QTDIR is set exactly on the entries whose
\* Entries map is not nil.
C24_QidPaths ==
    static.built =>
        LET in == PreOrderIn(Dot, params.Root)
            out == PreOrderOut(static.root)
        IN  /\ Len(out) = Len(in)
            /\ \A k \in 1..Len(out) :
                 /\ out[k].path = k
                 /\ out[k].name = in[k].name
                 /\ out[k].type = (IF in[k].dir THEN QTDIR ELSE 0)

\* C24 witness: New has accepted a tree of five entries, with two
\* children of the root that are directories, one of them empty.
C24_Witness ==
    /\ static.built
    /\ Len(PreOrderOut(static.root)) = 5
    /\ Len(static.root.entries) = 2
    /\ \A i \in 1..2 : static.root.entries[i].dir
    /\ \E i \in 1..2 : static.root.entries[i].entries = <<>>

\* The latest two calls on the buffer were a successful WriteAt and then a
\* ReadAt at the same offset for at least as many bytes.
WriteThenRead ==
    /\ res.op = "WriteAt" /\ res.err = "" /\ ~res.panic
    /\ res'.op = "ReadAt" /\ res'.off = res.off /\ res'.len >= Len(res.data)

\* C26 as stated: after any writes, a read that follows a successful write
\* of bytes B (one at least) at O, at O and for at least len(B) bytes,
\* returns B.
C26_ReadReturnsWritten ==
    [][(WriteThenRead /\ Len(res.data) > 0) => res'.data = res.data]_vars

\* C26 amended: the read returns data that begin with B, and B itself
\* when it asks for len(B) bytes.
C26_ReadBeginsWithWritten ==
    [][WriteThenRead =>
         /\ Len(res'.data) >= Len(res.data)
         /\ SubSeq(res'.data, 1, Len(res.data)) = res.data
         /\ (res'.len = Len(res.data) => res'.data = res.data)]_vars

\* C26 witness: two bytes written in the middle of a buffer that an earlier
\* write filled have been read back.
C26_Witness ==
    /\ res.op = "ReadAt" /\ res.off = 1 /\ res.len = 2 /\ res.err = ""
    /\ res.data = <<2, 2>>
    /\ bufs[1].buf = <<1, 2, 2>>

C25_ReaddirBounded ==
    res.op = "Readdir" =>
        /\ ~res.panic
        /\ res.written <= res.len
        /\ res.n = res.written
        /\ (res.index >= res.children => res.n = 0)

\* The part of C25 that holds: Readdir calls that have room in dir for all
\* the entries from index on.
C25_ReaddirWithRoom ==
    (res.op = "Readdir" /\ res.children - res.index <= res.len) =>
        /\ ~res.panic
        /\ res.written <= res.len
        /\ res.n = res.written
        /\ (res.index >= res.children => res.n = 0)

\* Every Fid in use carries the context its Attach was given, and a buffer
\* it has open is the buffer of that context.
ContextKept ==
    \A i \in SFids :
        sfids[i].used =>
            /\ sfids[i].context.other = sfids[i].att
            /\ sfids[i].file.kind = "buf" => sfids[i].file.b = sfids[i].att

\* C28: a Fid made by Walk or Clone from the root Fid of an attach carries
\* the context of that attach; the buffer of an attach changes only by a
\* write through a Fid of that attach (so it outlives Clunk and a new
\* Open), and a read of "other" returns the buffer of the reader's own
\* attach, never that of another.
C28_ContextPerAttach ==
    /\ []ContextKept
    /\ [][\A k \in 1..Len(bufs) :
            bufs'[k] # bufs[k] => (res'.op = "WriteAt" /\ res'.att = k)]_vars
    /\ []((res.op = "ReadAt" /\ res.content = entryInfoOther)
            => res.data = bufs[res.att].buf)

\* C28 witness: with data in the buffer of the first attach and a Fid of
\* that attach still in use, "other" has been opened under the second
\* attach and read as empty.
C28_Witness ==
    /\ res.op = "ReadAt" /\ res.content = entryInfoOther
    /\ res.att = 2 /\ res.data = <<>>
    /\ bufs[1].buf # <<>>
    /\ \E i \in SFids : sfids[i].used /\ sfids[i].att = 1

\* The id a one-digit decimal name spells.
IdOf(name) == CHOOSE id \in 0..9 : name = <<Digits[id + 1]>>

\* The entry of the static tree at a path of names from entry e.
RECURSIVE EntryAt(_, _)
EntryAt(e, path) ==
    IF path = <<>> THEN e
    ELSE EntryAt(e.entries[CHOOSE k \in 1..Len(e.entries) :
                               e.entries[k].name = Head(path)],
                 Tail(path))

\* The ids spelled by the first names a Fid was walked along, one for each
\* wrapper.
WalkedIds(w) == [j \in 1..depth |-> IdOf(w[j])]

\* C29: a Fid walked from the root of the nested wrappers along the decimal
\* names of ids i1..ik and then a path ends in the Fid of the innermost
\* back-end at that path, with the context made of i1..ik in that order;
\* the walk of the j-th id calls AttachInner of the back-end below the j-th
\* wrapper with the context of i1..ij, and no other walk attaches; once the
\* Fid is open, a read returns the file of that inner Fid, which spells
\* those ids and the content of the entry.
C29_NestedWalk ==
    /\ [](\A i \in CFids :
            (cfids[i].used /\ Len(cfids[i].walked) >= depth) =>
                LET w == cfids[i].walked
                    in == innermost(depth, 1, cfids[i].f)
                IN  /\ in.used
                    /\ in.context = WalkedIds(w)
                    /\ in.entry = EntryAt(CloneTree, SubSeq(w, depth + 1, Len(w)))
                    /\ in.file # NoFile =>
                          in.file.s = Append(WalkedIds(w), in.entry.content))
    /\ [][(res'.op = "Walk" /\ res'.err = "" /\ ~res'.panic) =>
            LET w == cfids'[res'.fid].walked
            IN  res'.attached =
                    IF Len(w) <= depth
                    THEN <<[level |-> Len(w) + 1,
                            c |-> [j \in 1..Len(w) |-> IdOf(w[j])]]>>
                    ELSE <<>>]_vars
    /\ []((res.op = "ReadAt" /\ res.off = 0) =>
            LET w == cfids[res.fid].walked
            IN  res.data = Append(WalkedIds(w),
                                  EntryAt(CloneTree,
                                          SubSeq(w, depth + 1, Len(w))).content))

\* C29 witness: under two wrappers, the file at 2/1/info/version has been
\* opened and read.
C29_Witness ==
    /\ depth = 2
    /\ res.op = "ReadAt" /\ res.off = 0 /\ res.data = <<2, 1, 1>>
    /\ cfids[res.fid].walked = <<<<"2">>, <<"1">>, Info, Version>>

\* The name is the canonical decimal form of an id for which the provider
\* of the outermost wrapper reports true.
ServedName(name) ==
    \E id \in 0..(providerLen(1) - 1) : name = <<Digits[id + 1]>>

\* The step is a Walk on a Fid that is at the root of the outermost
\* wrapper.
RootWalk == res'.op = "Walk" /\ cfids[res'.fid].f.kind = cloneRoot

\* What C30 asks of a Walk at the root with that name.
RootWalkRule(name) ==
    /\ (res'.err = "" /\ ~res'.panic) => ServedName(name)
    /\ ~ServedName(name) =>
          /\ ~res'.panic
          /\ res'.err = "file not found"
          /\ res'.attached = <<>>
          /\ cfids' = cfids

\* C30: a Walk at the root of a clone wrapper succeeds only for the
\* canonical decimal name of an id that the provider has; for every other
\* name it fails with "file not found", calls no AttachInner and leaves the
\* Fid at the root.
C30_RootWalk == [][RootWalk => RootWalkRule(res'.name)]_vars

\* The part of C30 that holds: every name but "..".
C30_RootWalkButDotDot ==
    [][(RootWalk /\ res'.name # DotDot) => RootWalkRule(res'.name)]_vars

\* The Path of the innermost Fid under a wrapper Fid (0 when the chain of
\* inner fids ends at the root of a wrapper), and the Path of the Qid of
\* the inner fid of a wrapper's Fid.
RECURSIVE InnermostPath(_, _, _)
InnermostPath(d, level, f) ==
    IF level > d THEN f.entry.qid.path
    ELSE IF f.kind = cloneRoot THEN 0
    ELSE InnermostPath(d, level + 1, f.fid)

InnerPath(f) == Qid(depth, 2, f.fid).path
NoBitsLost(f) ==
    InnermostPath(depth, 1, f) < 2 ^ (PathBits - qidBits * depth)

\* C31: the Path of the Qid of a non-root Fid of the wrapper is the inner
\* Path shifted by qidBits with the kind in the low bits; when the shifts
\* lose no bits, it is not the root's Path 0, and two Fids with different
\* kind or inner Path have different Paths.
C31_QidPath ==
    res.op = "Qid" =>
        LET f == cfids[1].f
            g == cfids[2].f
        IN  (f.kind # cloneRoot /\ NoBitsLost(f)) =>
                /\ res.data[1] = InnerPath(f) * 2 ^ qidBits + f.kind
                /\ res.data[1] # cloneRoot
                /\ (g.kind # cloneRoot /\ NoBitsLost(g)
                    /\ <<f.kind, InnerPath(f)>> # <<g.kind, InnerPath(g)>>)
                       => res.data[1] # res.data[2]

\* C31 witness: under MaxDepth wrappers, Qid was asked of a dir Fid and of
\* a rest Fid around inner fids with one and the same Path, the largest
\* that loses no bits.
C31_Witness ==
    /\ res.op = "Qid" /\ depth = MaxDepth
    /\ cfids[1].f.kind = cloneDir /\ cfids[2].f.kind = cloneRest
    /\ InnermostPath(depth, 1, cfids[1].f)
           = 2 ^ (PathBits - qidBits * depth) - 1
    /\ InnerPath(cfids[1].f) = InnerPath(cfids[2].f)
    /\ res.data[2] = res.data[1] + 1

\* C32: two Fids of the wrapper whose Qids have the same Path and Type are
\* at the same file, that is, they were walked along the same names from
\* the root.
C32_QidIdentifiesFile ==
    \A i, j \in CFids :
        (/\ cfids[i].used /\ cfids[j].used
         /\ Qid(depth, 1, cfids[i].f) = Qid(depth, 1, cfids[j].f))
            => cfids[i].walked = cfids[j].walked

\* The ids of the provider of the outermost wrapper from index upward.
IdsFrom(index) ==
    {e \in index..(providerLen(1) - 1) : providerGet(1, <<>>, e).ok}

\* C33: a Readdir at the root of the wrapper returns, without a panic, one
\* entry for each id the provider has from index upward, as many as dir
\* holds; read after read with the index advanced by the count, that is
\* every id once.
C33_RootReaddir ==
    (res.op = "Readdir" /\ cfids[res.fid].f.kind = cloneRoot) =>
        /\ ~res.panic
        /\ LET ids == Cardinality(IdsFrom(res.index))
           IN  res.n = IF ids < res.len THEN ids ELSE res.len

\* C34: a Walk with the name ".." on any Fid of the back-end does not
\* panic: it fails with "file not found" and leaves the Fid as it was.
C34_DotDotRejected ==
    [][(res'.op = "Walk" /\ res'.name = DotDot) =>
          /\ ~res'.panic
          /\ res'.err = "file not found"
          /\ cfids' = cfids]_vars

\* The step answers a request other than Tclunk and Tremove with Rerror.
AnsweredRerror ==
    /\ Sent /\ last'.reply = "Rerror"
    /\ last'.type \notin {"Tclunk", "Tremove"}

\* What a client can see of a fid record, and where a directory read of it
\* goes on.
FidState(r) ==
    [val |-> r.val, attached |-> r.attached, open |-> r.open,
     openMode |-> r.openMode, iounit |-> r.iounit,
     dirOffset |-> r.dirOffset, dirIndex |-> r.dirIndex]

\* The step leaves every entry of the fid table that is not the new fid
\* nf as it was, adds none, and leaves nf out of the table.
TableKept(nf) ==
    \A id \in Fids :
        /\ (fids[id] # NoRec /\ fids[id] # nf) => fids'[id] = fids[id]
        /\ fids'[id] # NoRec => fids'[id] = fids[id]
        /\ nf # NoRec => fids'[id] # nf

\* The step leaves the state of every record in the table but nf as it
\* was, leaves the request without a goroutine and record f with the locks
\* of the other requests only, and leaves the server running.
RestKept(nf, f) ==
    /\ \A r \in Msgs :
          (r # nf /\ InTable(r)) => FidState(recs'[r]) = FidState(recs[r])
    /\ tasks'[last'.req].pc = "none"
    /\ (f # NoRec /\ last'.locked) =>
          LET holders == {i \in Msgs :
                             /\ tasks'[i].pc \notin {"none", "delnew"}
                             /\ tasks'[i].fid = f}
          IN  /\ recs'[f].w = (\E i \in holders : tasks'[i].excl)
              /\ recs'[f].r = Cardinality({i \in holders : ~tasks'[i].excl})
    /\ ~panicked' /\ serve'.pc = serve.pc

\* C35: the step that answers a request other than Tclunk/Tremove with
\* Rerror leaves every entry of the fid table that is not the request's own
\* new fid as it was, adds none, leaves the request's new fid out of the
\* table, leaves the state of every other record that was in the table as
\* it was, leaves the request without a lock on its fid, and leaves the
\* server running.
C35_RerrorFrame ==
    [][AnsweredRerror =>
          /\ TableKept(last'.nrec)
          /\ RestKept(last'.nrec, last'.rec)]_vars

\* The part of C35 that holds: everything but the entries of the table.
C35_RerrorFrameButTable ==
    [][AnsweredRerror => RestKept(last'.nrec, last'.rec)]_vars

\* The step ran srv.delFid: in handleClunk, or at the end of releaseTag in
\* a goroutine; and the record it ran on.
DelFidStep == last'.step \in {"cdel", "deln", "panic"}
DelFidRec ==
    IF last'.type = "Tclunk" THEN last'.rec ELSE last'.nrec

\* C36: delFid runs only on a record that is the entry of the fid table
\* for its id, so it never panics and never deletes the entry of another
\* record.
C36_DelFidOnEntry ==
    /\ [][DelFidStep => InTable(DelFidRec)]_vars
    /\ []~panicked

\* C37: a goroutine enters a back-end call (Stat, Open, ReadAt, Readdir,
\* WriteAt, or the Clone that seeds a walk) only on the backing value of a
\* record whose attached flag is set.
C37_AttachedOnly ==
    [][last'.step = "call" => recs[last'.rec].attached]_vars

\* The client has clunked all its fids and every request has replied.
Quiescent ==
    /\ ~panicked
    /\ \A id \in Fids : fids[id] = NoRec
    /\ \A i \in Msgs : tasks[i].pc = "none"

\* Every back-end value made by Attach or Clone and not yet released.
Unreleased == {v \in Vals : vals[v].used /\ vals[v].clunks = 0}

\* The step answers an in-place Twalk (Newfid = Fid) on an attached fid
\* with all its names walked.
InPlaceWalked ==
    /\ last'.step = "ret" /\ last'.type = "Twalk" /\ last'.reply = "Rwalk"
    /\ last'.nrec = NoRec /\ Len(last'.wqid) = last'.n
    /\ recs[last'.rec].attached

\* C38: every back-end value made by Attach or Clone is released by at
\* most one Clunk, and by one once the fid table is empty and no request
\* is in flight; the working clone of an in-place Twalk that has walked all
\* its names is released or is the backing value of a fid.
C38_ValuesReleased ==
    /\ [](\A v \in Vals : vals[v].clunks <= 1)
    /\ [](Quiescent => Unreleased = {})
    /\ [][InPlaceWalked =>
             \/ vals'[last'.val].clunks = 1
             \/ \E r \in Msgs : recs'[r].val = last'.val]_vars

\* The encoded size of the first k entries of the directory, and the
\* largest encoded size of an entry.
SizeOfFirst(k) == Sum(SubSeq(DirSizes, 1, k))
MaxEntry == CHOOSE m \in {DirSizes[k] : k \in 1..Len(DirSizes)} :
                \A k \in 1..Len(DirSizes) : DirSizes[k] <= m

\* The step in which the goroutine of request i answers a directory read
\* whose limit is large enough for any single entry with an Rread that
\* keeps to the limit.
DirRread(i) ==
    /\ ReadDirStep(i) /\ last'.reply = "Rread"
    /\ last'.limit >= MaxEntry
    /\ Sum(last'.data) <= last'.limit

\* Before the step the entries the directory read of request i has
\* consumed are those whose bytes have been sent or are in its buffer (a
\* read at offset 0 starts by consuming none and having sent none).
ConsumedAreSent(i) ==
    \/ tasks[i].pc = "spawned" /\ tasks[i].offset = 0
    \/ recs[tasks[i].fid].dirOffset + Sum(tasks[i].buf)
           = SizeOfFirst(recs[tasks[i].fid].dirIndex)

\* C39: a directory Rread to a read with a sufficient count carries the
\* entries that begin at the byte offset the read named, none when that is
\* the end of the directory only, and leaves the fid where the next read
\* goes on with the entry after the last one sent: the bytes sent are those
\* of the entries consumed. So the payloads of successive reads are the
\* entries of the directory, each once, in order.
C39_EntriesOnce ==
    [][\A i \in Msgs :
         (DirRread(i) /\ ConsumedAreSent(i)) =>
            LET f == tasks[i].fid
            IN  /\ \E k \in 0..Len(DirSizes) :
                      /\ SizeOfFirst(k) = last'.offset
                      /\ last'.data = SubSeq(DirSizes, k + 1,
                                              k + Len(last'.data))
                      /\ last'.data = <<>> => k = Len(DirSizes)
                /\ recs'[f].dirOffset = SizeOfFirst(recs'[f].dirIndex)]_vars

\* C40: fs.Close is invoked at most once, not while a back-end operation
\* of a handler task is running, and no handler task enters a back-end
\* operation after it.
C40_CloseAtRest ==
    /\ [](closes <= 1)
    /\ [][closes' # closes => \A v \in Vals : vals[v].running = 0]_vars
    /\ [][last'.step = "call" => closes = 0]_vars
====
